---- MODULE Spec2Model ----
(***************************************************************************)
(* BotID: request signing (BotIDClient.fetch), the verifyBotID server      *)
(* middleware, the credential store and the device authorization flow,     *)
(* modelled as state machines.  Each component has its own specification   *)
(* (Spec, StoreSpec, LoginSpec, RaceSpec for two processes writing the     *)
(* credentials file, AgentSpec for init and the client it returns,         *)
(* BootSpec for two invocations of init, ServerSpec for two overlapping    *)
(* middleware invocations); the other components stay at rest in it.       *)
(*                                                                         *)
(* Strings are sequences of one-character strings, so that concatenation,  *)
(* toUpperCase, split("?") and Number()/String() are computed and not      *)
(* assumed.  Hex blobs (keys, signatures) are sequences that start with a  *)
(* marker element: an Ed25519 signature is the marker, the key it was made *)
(* with and the signed bytes, which is what verification depends on.       *)
(***************************************************************************)
EXTENDS Integers, Sequences, FiniteSets, TLC

VARIABLES
    opts,       \* verifyBotID options after defaulting: requireVerified, onUnverified
    now,        \* Math.floor(Date.now() / 1000)
    ticks,      \* clock advances so far
    pc,         \* position of the one request / middleware invocation
    wire,       \* the request BotIDClient.fetch handed to fetch()
    req,        \* the request object the middleware sees (headers, method, urls, BotID)
    local,      \* the invocation's locals that live across its awaits
    keysRes,    \* the registry's answer to GET /api/keys/{botId}
    trace,      \* calls made by the middleware, in order, each with req.BotID at the call
    promise,    \* state of the promise the async middleware returned
    signed,     \* what the signer of the presented signature signed (history)
    checkedAt   \* the clock value isTimestampValid read (history)

VARIABLES
    dir,             \* whether ~/.botid exists
    credentialsFile, \* content of ~/.botid/credentials.json
    authFile,        \* content of ~/.botid/auth.json
    call,            \* the last call of a store function, with its outcome
    lastSaved        \* per name, the record last saved and not removed since (history)

middlewareVars ==
    <<opts, now, ticks, pc, wire, req, local, keysRes, trace, promise, signed, checkedAt>>

VARIABLES
    lpc,        \* position of the one deviceLogin invocation
    lclock,     \* Date.now() of the process running deviceLogin, in milliseconds
    flow,       \* deviceLogin's locals: options, apiUrl, codeResponse, startTime;
                \* and the session file as it was when the flow began (history)
    lastPoll,   \* the last poll response body
    ltrace,     \* calls made by deviceLogin, in order
    lresult,    \* the promise deviceLogin returned
    browser     \* what the attempt to open the browser came to

VARIABLES
    race        \* two processes in saveCredentials / removeCredentials: per process
                \* its position, its call and the store it read; and the reads and
                \* writes of the file in the order they happened (history)

VARIABLES
    ipc,        \* position of the one init invocation
    icall,      \* init's options and the BOTID_TOKEN environment variable
    ilocal,     \* init's locals that live across its awaits
    itrace,     \* calls made by init and by the client it returned, in order
    iresult     \* the promise init returned: pending, the client, or the error

VARIABLES
    other,      \* a second invocation (of the middleware, or of init) that is not
                \* running right now
    registry    \* the bot ids the registry has revoked

storeVars == <<dir, credentialsFile, authFile, call, lastSaved>>

loginVars == <<lpc, lclock, flow, lastPoll, ltrace, lresult, browser>>

agentVars == <<ipc, icall, ilocal, itrace, iresult>>

vars == <<middlewareVars, storeVars, loginVars, race, agentVars, other, registry>>

\* what a step of the middleware specification leaves alone
outsideMiddleware == <<storeVars, loginVars, race, agentVars, other, registry>>

---------------------------------------------------------------------------
(* Bounds of the model *)

MaxTicks == 1

\* calls made on the client init returned
MaxCalls == 1

---------------------------------------------------------------------------
(* Program constants *)

TIMESTAMP_WINDOW_SECONDS == 300

HEADER_BOT_ID == "X-BotID"
HEADER_SIGNATURE == "X-BotID-Signature"
HEADER_TIMESTAMP == "X-BotID-Timestamp"

DEFAULT_API_URL == <<"https://botid.net">>

---------------------------------------------------------------------------
(* JavaScript values *)

Undefined == [t |-> "undefined"]
Str(s) == [t |-> "string", v |-> s]

\* !x for x : string | undefined
Falsy(x) == x.t = "undefined" \/ (x.t = "string" /\ x.v = <<>>)

\* x ?? d
Coalesce(x, d) == IF x.t = "undefined" THEN d ELSE x

Num(n) == [n |-> n]
NaN == [NaN |-> TRUE]
IsNaN(x) == "NaN" \in DOMAIN x

Abs(i) == IF i < 0 THEN -i ELSE i

Digits == <<"0", "1", "2", "3", "4", "5", "6", "7", "8", "9">>

RECURSIVE DecimalValue(_)
DecimalValue(s) ==
    IF s = <<>> THEN 0
    ELSE 10 * DecimalValue(SubSeq(s, 1, Len(s) - 1)) + (CHOOSE i \in 1..10 : Digits[i] = s[Len(s)]) - 1

\* Number(s) on the strings a header can carry here: decimal digits, or not a number
ToNumber(s) ==
    IF s # <<>> /\ \A i \in 1..Len(s) : \E d \in 1..10 : Digits[d] = s[i]
    THEN Num(DecimalValue(s))
    ELSE NaN

RECURSIVE NatToString(_)
NatToString(n) ==
    IF n < 10 THEN <<Digits[n + 1]>>
    ELSE NatToString(n \div 10) \o <<Digits[(n % 10) + 1]>>

\* `${x}` / String(x) for x : number
NumberToString(x) == IF IsNaN(x) THEN <<"N", "a", "N">> ELSE NatToString(x.n)

ToUpperCase(s) == [i \in 1..Len(s) |-> (LET c == s[i]
        IN CASE c = "a" -> "A" [] c = "b" -> "B" [] c = "e" -> "E" [] c = "g" -> "G" [] c = "o" -> "O" [] c = "p" -> "P" [] c = "s" -> "S" [] c = "t" -> "T" [] c = "c" -> "C" [] c = "h" -> "H" [] c = "q" -> "Q" [] OTHER -> c)]

\* index of the first occurrence of one of the characters cs in s, or Len(s) + 1
FirstOf(s, cs) ==
    IF \E i \in 1..Len(s) : s[i] \in cs
    THEN CHOOSE i \in 1..Len(s) : s[i] \in cs /\ \A j \in 1..(i - 1) : s[j] \notin cs
    ELSE Len(s) + 1

\* mutant: the query is left on the path
SplitQuery0Whole(s) == s

\* s.split("?")[0]
SplitQuery0(s) == SubSeq(s, 1, FirstOf(s, {"?"}) - 1)

---------------------------------------------------------------------------
(* CryptoCore: src/src/verify.ts *)

Keys == {"k1", "k2"}

\* hex of the PKCS8 DER / SPKI DER encoding of key pair k (generateKeypair)
PrivateKeyHex(k) == <<"#pkcs8", k>>
PublicKeyHex(k) == <<"#spki", k>>

\* crypto.sign(null, Buffer.from(message), privateKey).toString("hex")
signMessage(message, privateKeyHex) == <<"#ed25519", privateKeyHex[2]>> \o message

\* mutant: the signature is not checked against the fetched key
verifySignatureNoKeyCheck(message, signatureHex, publicKey) ==
    /\ publicKey.t = "string"
    /\ Len(publicKey.v) = 2 /\ publicKey.v[1] = "#spki"
    /\ Len(signatureHex) >= 2 /\ signatureHex[1] = "#ed25519"
    /\ SubSeq(signatureHex, 3, Len(signatureHex)) = message

\* mutant: a key that does not decode is not an error
verifySignatureAnyKey(message, signatureHex, publicKey) ==
    /\ Len(signatureHex) >= 2 /\ signatureHex[1] = "#ed25519"
    /\ SubSeq(signatureHex, 3, Len(signatureHex)) = message

\* true iff the key decodes, the signature decodes and it is a signature of
\* exactly these bytes under this key; every throw is caught and yields false
verifySignature(message, signatureHex, publicKey) ==
    /\ publicKey.t = "string"
    /\ Len(publicKey.v) = 2 /\ publicKey.v[1] = "#spki"
    /\ Len(signatureHex) >= 2 /\ signatureHex[1] = "#ed25519"
    /\ signatureHex[2] = publicKey.v[2]
    /\ SubSeq(signatureHex, 3, Len(signatureHex)) = message

\* mutant: every timestamp is accepted
isTimestampValidAlways(timestamp, clock) == TRUE

\* mutant: the edge of the window is excluded
isTimestampValidStrict(timestamp, clock) ==
    /\ ~IsNaN(timestamp)
    /\ Abs(clock - timestamp.n) < TIMESTAMP_WINDOW_SECONDS

isTimestampValid(timestamp, clock) ==
    /\ ~IsNaN(timestamp)
    /\ Abs(clock - timestamp.n) <= TIMESTAMP_WINDOW_SECONDS

RECURSIVE StripTrailingSlashes(_)
StripTrailingSlashes(s) ==
    IF s # <<>> /\ s[Len(s)] = "/"
    THEN StripTrailingSlashes(SubSeq(s, 1, Len(s) - 1))
    ELSE s

normalizeUrl(url) == StripTrailingSlashes(Coalesce(url, Str(DEFAULT_API_URL)).v)

---------------------------------------------------------------------------
(* RequestSigner: BotIDClient, src/src/store.ts *)

\* mutant: the method is left out of the message
ClientMessageNoMethod(timestamp, botId, method, pathname) ==
    NumberToString(timestamp) \o <<".">> \o botId \o <<".">> \o pathname

\* `${timestamp}.${botId}.${method}.${pathname}`
ClientMessage(timestamp, botId, method, pathname) ==
    NumberToString(timestamp) \o <<".">> \o botId \o <<".">> \o method
        \o <<".">> \o pathname

\* A URL string is its origin (one element) followed by the characters of
\* path, query and fragment.  new URL(url).pathname:
Pathname(url) ==
    LET rest == Tail(url)
        p == SubSeq(rest, 1, FirstOf(rest, {"?", "#"}) - 1)
    IN  IF p = <<>> THEN <<"/">> ELSE p

\* the client of this model: new BotIDClient({botId, privateKey})
ClientBotId == <<"b", "1">>
ClientKey == "k1"

\* header names as Headers and a server see them (lower-cased)
LowerName(name) ==
    CASE name = HEADER_BOT_ID -> "x-botid"
      [] name = HEADER_SIGNATURE -> "x-botid-signature"
      [] name = HEADER_TIMESTAMP -> "x-botid-timestamp"
      [] name = "X-BOTID" -> "x-botid"
      [] name = "Accept" -> "accept"
      [] OTHER -> name

HeaderNames == {"x-botid", "x-botid-signature", "x-botid-timestamp"}

\* mutant: a header the caller supplied is not overwritten
IdentityHeadersCallerWins(initHeaders, botId, signature, timestamp) ==
    [h \in HeaderNames \cup {LowerName(initHeaders[i][1]) : i \in 1..Len(initHeaders)} |->
        IF \E i \in 1..Len(initHeaders) : LowerName(initHeaders[i][1]) = h
        THEN initHeaders[CHOOSE i \in 1..Len(initHeaders) : LowerName(initHeaders[i][1]) = h][2]
        ELSE IF h = LowerName(HEADER_BOT_ID) THEN Str(botId)
        ELSE IF h = LowerName(HEADER_SIGNATURE) THEN Str(signature)
        ELSE Str(NumberToString(timestamp))]

\* new Headers(init?.headers), then headers.set(name, value) for the three
\* identity headers; initHeaders is the caller's list of <<name, value>>,
\* and a Headers object keeps one value per lower-cased name
IdentityHeaders(initHeaders, botId, signature, timestamp) ==
    [h \in HeaderNames \cup {LowerName(initHeaders[i][1]) : i \in 1..Len(initHeaders)} |->
        IF h = LowerName(HEADER_BOT_ID) THEN Str(botId)
        ELSE IF h = LowerName(HEADER_SIGNATURE) THEN Str(signature)
        ELSE IF h = LowerName(HEADER_TIMESTAMP) THEN Str(NumberToString(timestamp))
        ELSE initHeaders[CHOOSE i \in 1..Len(initHeaders) : LowerName(initHeaders[i][1]) = h][2]]

\* BotIDClient.fetch(url, init) of the client with this botId and privateKey:
\* the arguments it hands to fetch(), {...init, headers}; init is the caller's
\* RequestInit, its method and body undefined when not given
ClientFetchRequest(client, url, init, clock) ==
    LET timestamp == Num(clock)
        method == ToUpperCase(Coalesce(init.method, Str(<<"G", "E", "T">>)).v)
        pathname == Pathname(url)
        message == ClientMessage(timestamp, client.botId, method, pathname)
        signature == signMessage(message, client.privateKey)
    IN  [url |-> url, method |-> init.method, body |-> init.body,
         headers |-> IdentityHeaders(init.headers, client.botId, signature, timestamp)]

---------------------------------------------------------------------------
(* VerificationMiddleware: verifyBotID, src/src/verify.ts lines 100-212 *)

getHeader(r, name) ==
    LET val == r.headers[LowerName(name)]
    IN  IF val.t = "array"
        THEN (IF val.v = <<>> THEN Undefined ELSE Str(val.v[1]))
        ELSE val

\* mutant: every status counts as a success
OkAlways(status) == TRUE

\* Response.ok
Ok(status) == status \in 200..299

\* mutants: the revoked flag is never seen / every 403 counts as a revocation
RevokedFlagNever(body) == FALSE
RevokedFlagAlways(body) == TRUE

\* body.revoked is truthy, for a parsed object body
RevokedFlag(body) == "revoked" \in DOMAIN body.fields /\ body.fields.revoked

\* mutant: the request's method is not read
ReqMethodDefault(r) == <<"G", "E", "T">>

\* (req.method ?? "GET").toUpperCase()
ReqMethod(r) == ToUpperCase(Coalesce(r.method, Str(<<"G", "E", "T">>)).v)

\* The calls the middleware makes, as trace events carrying req.BotID at the call;
\* threw: the callee (framework or application code) raised synchronously
EvHandler(b, threw) == [threw |-> threw, op |-> "onUnverified", BotID |-> b]
EvStatus(code, b) == [op |-> "status", BotID |-> b, code |-> code]
EvJson(body, b) == [body |-> body, op |-> "json", BotID |-> b]

\* return next()
CallNext(tr, b, threw) == [trace |-> Append(tr, [threw |-> threw, op |-> "next", BotID |-> b]),
        threw |-> threw]

\* mutant: every default rejection is a 403
RejectAll403(tr, b, code, body, threw) ==
    IF opts.onUnverified
    THEN [trace |-> Append(tr, EvHandler(b, threw)), threw |-> threw]
    ELSE [trace |-> tr \o <<EvStatus(403, b), EvJson(body, b)>>, threw |-> FALSE]

\* if (options.onUnverified) return options.onUnverified(req, res);
\* return res.status(code).json(body)
Reject(tr, b, code, body, threw) ==
    IF opts.onUnverified
    THEN [trace |-> Append(tr, EvHandler(b, threw)), threw |-> threw]
    ELSE [trace |-> tr \o <<EvStatus(code, b), EvJson(body, b)>>, threw |-> FALSE]

\* mutant: requireVerified is not consulted
RejectAlways(tr, b, code, body, threw) == Reject(tr, b, code, body, threw)

\* if (requireVerified) { reject } return next()
RejectOrNext(tr, b, code, body, threw) ==
    IF opts.requireVerified THEN Reject(tr, b, code, body, threw)
    ELSE CallNext(tr, b, threw)

\* the catch block, lines 191-204
CatchBlock(tr, threw) ==
    LET b == (LET clock == now IN [timestamp |-> Num(clock), verified |-> FALSE,
            error |-> "Verification service unavailable"])
        r == RejectOrNext(tr, b, 503,
                          [error |-> "BotID verification service unavailable"], threw)
    IN  [trace |-> r.trace, threw |-> r.threw, BotID |-> b]

\* a call made inside the try block: what it throws lands in the catch block
InTry(b, r, threw) ==
    IF r.threw THEN CatchBlock(r.trace, threw)
    ELSE [trace |-> r.trace, threw |-> FALSE, BotID |-> b]

\* a call made outside the try block: what it throws rejects the promise
NoTry(b, r) == [trace |-> r.trace, threw |-> r.threw, BotID |-> b]

\* the invocation ends: the async function returns or throws
Return(out) ==
    /\ req' = [req EXCEPT !.BotID = out.BotID]
    /\ trace' = out.trace
    /\ promise' = IF out.threw THEN "rejected" ELSE "fulfilled"
    /\ pc' = "done"

---------------------------------------------------------------------------
(* Inputs *)

None == [none |-> TRUE]

GET == <<"G", "E", "T">>
POST == <<"P", "O", "S", "T">>
B1 == <<"b", "1">>
B2 == <<"b", "2">>
Origin == "https://api.example"

\* clock at the start; the header timestamps below sit on both edges of the window
Now0 == 1000

ReqMethods == {Undefined, Str(<<"g", "e", "t">>), Str(POST)}
\* <<originalUrl, url>>
ReqUrls ==
    {<<Undefined, Undefined>>, <<Undefined, Str(<<"/", "b", "?", "q">>)>>,
     <<Str(<<"/", "a">>), Str(<<"/", "a">>)>>,
     <<Str(<<"/", "a", "?", "q">>), Str(<<"/", "a", "?", "q">>)>>}
BotIdHeaders == {Undefined, Str(B1), [t |-> "array", v |-> <<B2, B1>>]}
TimestampHeaders ==
    {Undefined, Str(<<"6", "9", "9">>), Str(<<"0", "7", "0", "0">>),
     Str(<<"1", "3", "0", "0">>), Str(<<"1", "3", "0", "1">>), Str(<<"x">>)}

\* when the replayed signatures were made: the lower edge of the window at Now0
SignedAt == Now0 - TIMESTAMP_WINDOW_SECONDS

SignatureOf(sg) ==
    signMessage(ClientMessage(Num(sg.timestamp), sg.botId, sg.method, sg.path),
                PrivateKeyHex(sg.key))

\* `${ts}.${TEST_BOT_ID}`: the message validHeaders() of tests/middleware.test.ts signs
TestMessage(timestamp, botId) == NumberToString(timestamp) \o <<".">> \o botId

\* registry answers to GET /api/keys/{botId}; parse: what keysRes.json() yields
Unparseable == [parse |-> "error"]
JsonNull == [parse |-> "null"]
Obj(f) == [fields |-> f, parse |-> "object"]
\* the body of a response with another status is never read
Responses ==
    [status : {200}, body : ({Unparseable, JsonNull, Obj([other |-> TRUE]),
            Obj([publicKey |-> <<"z", "z">>])}
            \cup {Obj([publicKey |-> PublicKeyHex(k)]) : k \in Keys})] \cup [status : {403},
            body : ({Unparseable, Obj([other |-> TRUE]), Obj([revoked |-> TRUE]),
            Obj([revoked |-> FALSE])})]
        \cup [status : {500}, body : {Unparseable}]
NetworkError == [networkError |-> TRUE]

---------------------------------------------------------------------------
(* CredentialStore: src/src/store.ts lines 1-100 *)

\* JavaScript values as JSON.parse makes them and as the store functions change
\* them.  An object is the list of its own properties in insertion order and
\* its prototype; an array is its elements and its other own properties.
ObjectPrototype == [j |-> "builtin", of |-> "Object.prototype"]
JNull == [j |-> "null"]
JStr(s) == [s |-> s, j |-> "string"]
JBool(b) == [b |-> b, j |-> "boolean"]
JArr(es) == [j |-> "array", es |-> es, extra |-> <<>>, proto |-> ObjectPrototype]
JObj(ps) == [j |-> "object", proto |-> ObjectPrototype, ps |-> ps]

Kind(v) == IF "j" \in DOMAIN v THEN v.j ELSE "undefined"

\* a call either throws or returns a value
Throws == [threw |-> TRUE]
Returns(v) == [threw |-> FALSE, value |-> v]

HasOwn(ps, k) == \E i \in 1..Len(ps) : ps[i][1] = k
Own(ps, k) == ps[CHOOSE i \in 1..Len(ps) : ps[i][1] = k][2]

\* own property k written: in place when it exists, appended otherwise
Put(ps, k, x) ==
    IF HasOwn(ps, k)
    THEN [i \in 1..Len(ps) |-> IF ps[i][1] = k THEN <<k, x>> ELSE ps[i]]
    ELSE Append(ps, <<k, x>>)

Without(ps, k) == SelectSeq(ps, LAMBDA p : p[1] # k)

\* the members every object inherits from Object.prototype
ObjectPrototypeNames ==
    {"__proto__", "constructor", "hasOwnProperty", "isPrototypeOf",
     "propertyIsEnumerable", "toLocaleString", "toString", "valueOf"}

\* v[k], for the property names of this model (no array index, no "length")
RECURSIVE GetProp(_, _)
GetProp(v, k) ==
    IF Kind(v) \in {"undefined", "null"} THEN Throws
    ELSE IF Kind(v) = "object" /\ HasOwn(v.ps, k) THEN Returns(Own(v.ps, k))
    ELSE IF Kind(v) = "array" /\ HasOwn(v.extra, k) THEN Returns(Own(v.extra, k))
    ELSE IF Kind(v) \in {"object", "array"} /\ v.proto # ObjectPrototype
    THEN (IF k = "__proto__" THEN Returns(v.proto) ELSE GetProp(v.proto, k))
    ELSE Returns((IF k = "__proto__" THEN ObjectPrototype ELSE IF k \in ObjectPrototypeNames
            THEN [j |-> "builtin", of |-> k] ELSE Undefined))

\* JSON.parse(JSON.stringify(v, null, 2)): own properties with a JSON value
\* only; an array keeps its elements and loses its other properties; a changed
\* prototype is not written
RECURSIVE Jsonify(_)
Jsonify(v) ==
    IF Kind(v) = "object"
    THEN LET kept == SelectSeq(v.ps, LAMBDA p : Kind(p[2]) \notin {"undefined", "builtin"})
         IN  JObj([i \in 1..Len(kept) |-> <<kept[i][1], Jsonify(kept[i][2])>>])
    ELSE IF Kind(v) = "array"
    THEN JArr([i \in 1..Len(v.es) |->
                  IF Kind(v.es[i]) \in {"undefined", "builtin"} THEN JNull ELSE Jsonify(v.es[i])])
    ELSE v

\* what a file holds: nothing, bytes that cannot be read, text JSON.parse
\* rejects, or the text of a JSON value
AbsentFile == [file |-> "absent"]
GarbageFile == [file |-> "garbage"]
JsonFile(v) == [v |-> v, file |-> "json"]

\* fs.existsSync(FILE)
existsSync(file) == file # AbsentFile

\* JSON.parse(fs.readFileSync(FILE, "utf-8"))
ReadJson(file) == IF file.file = "json" THEN Returns(file.v) ELSE Throws

EmptyStore == JObj(<<<<"agents", JObj(<<>>)>>>>)

\* mutant: the store is not read, every call starts from an empty one
readStoreEmpty(file) == EmptyStore

readStore(file) ==
    IF ~existsSync(file) THEN EmptyStore
    ELSE IF ReadJson(file).threw THEN EmptyStore
    ELSE ReadJson(file).value

\* the result of a store function: whether it threw, what it returned, and the
\* file as it leaves it
Outcome(threw, value, file, wrote) ==
    [threw |-> threw, value |-> value, file |-> file, wrote |-> wrote]

\* fs.writeFileSync(FILE, JSON.stringify(v, null, 2)); ok: the write succeeds
Write(v, file, value, ok) ==
    IF ok THEN Outcome(FALSE, value, JsonFile(Jsonify(v)), TRUE)
    ELSE Outcome(TRUE, Undefined, file, TRUE)

getCredentials(file, name) ==
    LET agents == GetProp(readStore(file), "agents")
    IN  IF agents.threw THEN Outcome(TRUE, Undefined, file, FALSE)
        ELSE LET got == GetProp(agents.value, name)
             IN  IF got.threw THEN Outcome(TRUE, Undefined, file, FALSE)
                 ELSE Outcome(FALSE, got.value, file, FALSE)

\* creds.name
NameOf(creds) == Own(creds.ps, "name").s

saveCredentials(file, creds, ok) ==
    LET store == readStore(file)
        agents == GetProp(store, "agents")
    IN  IF agents.threw THEN Outcome(TRUE, Undefined, file, FALSE)
        \* store.agents[creds.name] = creds in strict mode code: a TypeError on null,
        \* undefined and primitives; "__proto__", unless an own property, sets the
        \* prototype when creds is an object
        ELSE LET set == (LET v == agents.value k == NameOf(creds) x == creds
                IN IF Kind(v) \notin {"object", "array"} THEN Throws
                ELSE IF Kind(v) = "object" /\ HasOwn(v.ps, k)
                THEN Returns([v EXCEPT !.ps = Put(v.ps, k, x)])
                ELSE IF Kind(v) = "array" /\ HasOwn(v.extra, k)
                THEN Returns([v EXCEPT !.extra = Put(v.extra, k, x)]) ELSE IF k = "__proto__"
                THEN (IF Kind(x) \in {"object", "array"} THEN Returns([v EXCEPT !.proto = x])
                ELSE Returns(v)) ELSE IF Kind(v) = "object" THEN Returns([v EXCEPT !.ps = Put(v.ps,
                k, x)]) ELSE Returns([v EXCEPT !.extra = Put(v.extra, k, x)]))
             IN  IF set.threw THEN Outcome(TRUE, Undefined, file, FALSE)
                 ELSE Write([store EXCEPT !.ps = Put(store.ps, "agents", set.value)],
                            file, Undefined, ok)

listAgents(file) ==
    LET agents == GetProp(readStore(file), "agents")
    IN  IF agents.threw THEN Outcome(TRUE, Undefined, file, FALSE)
        \* Object.keys(store.agents): own enumerable string keys; a TypeError on null
        \* and undefined
        ELSE LET keys == (LET v == agents.value IN IF Kind(v) \in {"undefined", "null"} THEN Throws
                ELSE IF Kind(v) = "object" THEN Returns([i \in 1..Len(v.ps) |-> v.ps[i][1]])
                ELSE IF Kind(v) = "array" THEN Returns(SubSeq(<<"0", "1", "2">>, 1,
                Len(v.es)) \o [i \in 1..Len(v.extra) |-> v.extra[i][1]]) ELSE IF Kind(v) = "string"
                THEN Returns(SubSeq(<<"0", "1", "2">>, 1, Len(v.s))) ELSE Returns(<<>>))
             IN  IF keys.threw THEN Outcome(TRUE, Undefined, file, FALSE)
                 ELSE Outcome(FALSE, JArr([i \in 1..Len(keys.value) |-> JStr(keys.value[i])]),
                              file, FALSE)

removeCredentials(file, name, ok) ==
    LET store == readStore(file)
        agents == GetProp(store, "agents")
    IN  IF agents.threw THEN Outcome(TRUE, Undefined, file, FALSE)
        \* name in store.agents: a TypeError unless it is an object
        ELSE LET has == (LET k == name v == agents.value IN IF Kind(v) = "object"
                THEN Returns(HasOwn(v.ps, k) \/ GetProp(v, k).value # Undefined)
                ELSE IF Kind(v) = "array" THEN Returns(HasOwn(v.extra, k) \/ GetProp(v,
                k).value # Undefined) ELSE Throws)
             IN  IF has.threw THEN Outcome(TRUE, Undefined, file, FALSE)
                 ELSE IF ~has.value THEN Outcome(FALSE, JBool(FALSE), file, FALSE)
                 ELSE Write([store EXCEPT !.ps = Put(store.ps, "agents",
                                                     (LET v == agents.value k == name
                                                             IN IF Kind(v) = "object"
                                                             THEN [v EXCEPT !.ps = Without(v.ps,
                                                             k)] ELSE [v EXCEPT !.extra = Without(v.extra,
                                                             k)]))],
                            file, JBool(TRUE), ok)

\* mutant: the session is not written
saveAuthSessionNoWrite(file, session, ok) == Outcome(FALSE, Undefined, file, FALSE)

saveAuthSession(file, session, ok) == Write(session, file, Undefined, ok)

getAuthSession(file) ==
    IF ~existsSync(file) THEN Outcome(FALSE, Undefined, file, FALSE)
    ELSE IF ReadJson(file).threw THEN Outcome(FALSE, Undefined, file, FALSE)
    ELSE Outcome(FALSE, ReadJson(file).value, file, FALSE)

clearAuthSession(file) ==
    IF existsSync(file) THEN Outcome(FALSE, JBool(TRUE), AbsentFile, FALSE)
    ELSE Outcome(FALSE, JBool(FALSE), file, FALSE)

\* inputs of the store functions
Names == {"a", "b", "constructor", "__proto__"}

\* a StoredCredentials record
Creds(name, botId, key) ==
    JObj(<<<<"botId", JStr(botId)>>, <<"privateKey", JStr(key)>>, <<"name", JStr(name)>>,
           <<"deployer", JStr("dev")>>, <<"apiUrl", JStr(DEFAULT_API_URL)>>,
           <<"createdAt", JStr("2026-01-01T00:00:00.000Z")>>>>)

\* an AuthSession record
Session(accessToken, apiUrl, authenticatedAt) ==
    JObj(<<<<"accessToken", JStr(accessToken)>>, <<"apiUrl", JStr(apiUrl)>>,
           <<"authenticatedAt", JStr(authenticatedAt)>>>>)

SessionInputs == {Session(<<"t", "0">>, DEFAULT_API_URL, <<"iso", 0>>)}


NoCall ==
    [name |-> "", threw |-> FALSE, op |-> "none", value |-> Undefined, wrote |-> FALSE,
     creds |-> Undefined, before |-> AbsentFile]

\* the record of a call of store function op
StoreCall(op, name, creds, before, out) ==
    [name |-> name, threw |-> out.threw, op |-> op, value |-> out.value, wrote |-> out.wrote,
     creds |-> creds, before |-> before]

\* no store function has been called and ~/.botid does not exist
StoreAtRest ==
    /\ dir = FALSE
    /\ credentialsFile = AbsentFile
    /\ authFile = AbsentFile
    /\ call = NoCall
    /\ lastSaved = [n \in Names |-> Undefined]

---------------------------------------------------------------------------
(* DeviceAuthFlow: deviceLogin, src/unnamed/part_001 (auth.ts) *)

\* new Date(ms).toISOString(): one string per instant
ToISOString(ms) == <<"iso", ms>>

\* the promise deviceLogin returned
Rejected(message) == [message |-> message, state |-> "rejected"]

\* mutant: the loop is entered while elapsed <= timeout
WithinValidityInclusive(elapsed, timeoutMs) == elapsed <= timeoutMs

\* the loop condition: Date.now() - startTime < timeoutMs
WithinValidity(elapsed, timeoutMs) == elapsed < timeoutMs

Field(body, f) == IF f \in DOMAIN body.fields THEN body.fields[f] ELSE Undefined

\* mutant: consumed is not terminal
TerminalErrorNoConsumed(poll) ==
    IF Field(poll, "status") = Str("expired")
    THEN Str("Device code expired. Please try again.")
    ELSE IF Field(poll, "status") = Str("error")
    THEN Coalesce(Field(poll, "error"), Str("Authentication failed"))
    ELSE Undefined

\* the message deviceLogin throws for this poll response, undefined when it
\* throws none (lines 100-110)
TerminalError(poll) ==
    IF Field(poll, "status") = Str("expired")
    THEN Str("Device code expired. Please try again.")
    ELSE IF Field(poll, "status") = Str("consumed")
    THEN Str("Device code already used. Please try again.")
    ELSE IF Field(poll, "status") = Str("error")
    THEN Coalesce(Field(poll, "error"), Str("Authentication failed"))
    ELSE Undefined

TimedOut == Str("Authentication timed out. Please try again.")

\* inputs of the flow
LoginClock0 == 5000
MinLatency == 200
PollLatencies == {MinLatency, 1000}

\* a DeviceCodeResponse
CodeResponse(expiresIn, interval) ==
    Obj([expiresIn |-> expiresIn, interval |-> interval, deviceCode |-> "dc1",
         userCode |-> "UC-1", verificationUrl |-> "https://r.example/device"])

PollResponses ==
    [status : {200}, body : ({Unparseable, JsonNull, Obj([status |-> Str("pending")]),
            Obj([status |-> Str("complete")]), Obj([status |-> Str("complete"),
            accessToken |-> Str(<<"t", "1">>)]), Obj([status |-> Str("expired")]),
            Obj([status |-> Str("consumed")]), Obj([status |-> Str("error")]),
            Obj([status |-> Str("error"), error |-> Str(<<"d", "e", "n", "i", "e", "d">>)])})]
        \cup [status : {202}, body : {Obj([status |-> Str("pending")])}]
        \cup [status : {500}, body : {Unparseable}]

\* what the attempt to open the browser can come to: the import of
\* node:child_process fails, execFile throws, the command is spawned and
\* succeeds, or it is spawned and fails afterwards (its error event is handled
\* inside execFile)

\* isLoggedIn(apiUrl) (lines 116-121): a session is stored and, when a URL is
\* given, session.apiUrl is that very string
isLoggedIn(file, apiUrl) ==
    LET session == getAuthSession(file).value
    IN  IF Kind(session) \in {"undefined", "null"} \/ session = JBool(FALSE) THEN FALSE
        ELSE IF ~Falsy(apiUrl) /\ GetProp(session, "apiUrl").value # JStr(apiUrl.v) THEN FALSE
        ELSE TRUE

\* getAccessToken(apiUrl) (lines 123-128)
getAccessToken(file, apiUrl) ==
    LET session == getAuthSession(file).value
    IN  IF Kind(session) \in {"undefined", "null"} \/ session = JBool(FALSE) THEN Undefined
        ELSE IF ~Falsy(apiUrl) /\ GetProp(session, "apiUrl").value # JStr(apiUrl.v)
        THEN Undefined
        ELSE GetProp(session, "accessToken").value

\* no login is running
LoginAtRest ==
    /\ lpc = "idle"
    /\ lclock = LoginClock0
    /\ flow = None
    /\ lastPoll = None
    /\ ltrace = <<>>
    /\ lresult = None
    /\ browser = "none"

\* no process is writing the credentials file, init has not been called, and
\* there is no second middleware invocation
OthersAtRest ==
    /\ race = None
    /\ ipc = "idle" /\ icall = None /\ ilocal = None /\ itrace = <<>> /\ iresult = None
    /\ other = None
    /\ registry = {}

---------------------------------------------------------------------------
(* The state machine *)

\* no request has been made
MiddlewareIdle ==
    /\ now = Now0
    /\ ticks = 0
    /\ pc = "idle"
    /\ wire = None
    /\ req = None
    /\ local = None
    /\ keysRes = None
    /\ trace = <<>>
    /\ promise = "none"
    /\ signed = None
    /\ checkedAt = <<>>

Init ==
    /\ opts \in [requireVerified : BOOLEAN, onUnverified : BOOLEAN,
                 apiUrl : {normalizeUrl(Undefined)}]
    /\ MiddlewareIdle
    /\ StoreAtRest
    /\ LoginAtRest
    /\ OthersAtRest

\* BotIDClient.fetch(url, {method}) signs the request and fetch() sends it
ClientFetch(url, initMethod) ==
    /\ pc = "idle"
    /\ wire' = LET passed == ClientFetchRequest(
                                 [botId |-> ClientBotId, privateKey |-> PrivateKeyHex(ClientKey)],
                                 url, [method |-> initMethod, body |-> Undefined,
                                       headers |-> <<>>], now)
                    \* fetch() upper-cases the methods it normalizes
                    m == Coalesce(passed.method, Str(GET)).v
                    \* the query of the URL, fragment dropped
                    rest == Tail(passed.url)
                    q == FirstOf(rest, {"?", "#"})
                    noFrag == SubSeq(rest, 1, FirstOf(rest, {"#"}) - 1)
                IN  [method |-> IF ToUpperCase(m) \in {<<"D", "E", "L", "E", "T", "E">>, GET,
                                                       <<"H", "E", "A", "D">>,
                                                       <<"O", "P", "T", "I", "O", "N", "S">>,
                                                       POST, <<"P", "U", "T">>}
                                THEN ToUpperCase(m) ELSE m,
                     headers |-> passed.headers,
                     target |-> Pathname(passed.url)
                                    \o (IF q <= Len(rest) /\ rest[q] = "?"
                                        THEN SubSeq(noFrag, q, Len(noFrag)) ELSE <<>>)]
    \* what the client signed: timestamp, upper-cased method and pathname
    /\ signed' = [timestamp |-> now, botId |-> ClientBotId,
                  method |-> ToUpperCase(Coalesce(initMethod, Str(GET)).v),
                  path |-> Pathname(url), key |-> ClientKey]
    /\ pc' = "inflight"
    /\ UNCHANGED <<opts, now, ticks, req, local, keysRes, trace, promise, checkedAt>>
    /\ UNCHANGED outsideMiddleware

\* the client's request reaches the server unmodified
Deliver ==
    /\ pc = "inflight"
    /\ req' = [url |-> Str(wire.target), method |-> Str(wire.method),
               headers |-> wire.headers, BotID |-> Undefined,
               originalUrl |-> Str(wire.target)]
    /\ promise' = "pending"
    /\ pc' = "called"
    /\ UNCHANGED <<opts, now, ticks, wire, local, keysRes, trace, signed, checkedAt>>
    /\ UNCHANGED outsideMiddleware

\* any other request reaches the server: its signature header, when it is a
\* signature, was made by the client for some request sg
Receive(method, urls, botIdHeader, timestampHeader, signatureHeader, sg) ==
    /\ pc = "idle"
    /\ req' = [url |-> urls[2],
               method |-> method, headers |-> [h \in HeaderNames |->
                              IF h = "x-botid" THEN botIdHeader
                              ELSE IF h = "x-botid-signature" THEN signatureHeader
                              ELSE timestampHeader], BotID |-> Undefined,
               originalUrl |-> urls[1]]
    /\ signed' = sg
    /\ promise' = "pending"
    /\ pc' = "called"
    /\ UNCHANGED <<opts, now, ticks, wire, local, keysRes, trace, checkedAt>>
    /\ UNCHANGED outsideMiddleware

\* the clock advances while the request is in flight or the middleware awaits.
\* The clock is read on entry and in the catch block only, so an advance while a
\* body is being read is the same advance made while the lookup was pending.
Tick(d) ==
    /\ pc \in {"inflight", "awaitFetch"}
    /\ ticks < MaxTicks
    /\ now' = now + d
    /\ ticks' = ticks + 1
    /\ UNCHANGED <<opts, pc, wire, req, local, keysRes, trace, promise, signed, checkedAt>>
    /\ UNCHANGED outsideMiddleware

\* verifyBotID's handler from its entry to its first await (lines 105-148):
\* the header checks, the replay window, and the key lookup being issued
Invoke(threw) ==
    /\ pc = "called"
    /\ LET botId == getHeader(req, HEADER_BOT_ID)
           signature == getHeader(req, HEADER_SIGNATURE)
           timestampRaw == getHeader(req, HEADER_TIMESTAMP)
           timestamp == ToNumber(timestampRaw.v)
           unsigned == [timestamp |-> Num(now), verified |-> FALSE]
           stale == [timestamp |-> timestamp, verified |-> FALSE,
                     error |-> "Timestamp outside valid window"]
       IN  IF Falsy(botId) /\ Falsy(signature) /\ Falsy(timestampRaw)
           THEN /\ IF opts.requireVerified
                   THEN Return(NoTry(req.BotID,
                            Reject(trace, req.BotID, 403,
                                   [error |-> "BotID verification required"], threw)))
                   ELSE Return(NoTry(unsigned, CallNext(trace, unsigned, threw)))
                /\ UNCHANGED <<local, checkedAt>>
           ELSE IF Falsy(botId) \/ Falsy(signature) \/ Falsy(timestampRaw)
           THEN /\ IF opts.requireVerified
                   THEN Return(NoTry(req.BotID,
                            Reject(trace, req.BotID, 400,
                                   [error |-> "Incomplete BotID headers"], threw)))
                   ELSE Return(NoTry(unsigned, CallNext(trace, unsigned, threw)))
                /\ UNCHANGED <<local, checkedAt>>
           ELSE IF ~isTimestampValid(timestamp, now)
           THEN /\ Return(NoTry(stale,
                        RejectOrNext(trace, stale, 403,
                                     [error |-> "Timestamp outside valid window"], threw)))
                /\ checkedAt' = <<now>>
                /\ UNCHANGED local
           ELSE /\ local' = [timestamp |-> timestamp, botId |-> botId.v,
                             signature |-> signature.v]
                /\ checkedAt' = <<now>>
                /\ trace' = Append(trace,
                                [url |-> opts.apiUrl \o <<"/api/keys/">> \o botId.v, op |-> "fetch",
                                 BotID |-> req.BotID])
                /\ pc' = "awaitFetch"
                /\ UNCHANGED <<req, promise>>
    /\ UNCHANGED <<opts, now, ticks, wire, keysRes, signed>>
    /\ UNCHANGED outsideMiddleware

\* the key lookup fails on the network: fetch rejects, the catch block runs
LookupFails(threw) ==
    /\ pc = "awaitFetch"
    /\ keysRes' = NetworkError
    /\ Return(CatchBlock(trace, threw))
    /\ UNCHANGED <<opts, now, ticks, wire, local, signed, checkedAt>>
    /\ UNCHANGED outsideMiddleware

\* the key lookup is answered (lines 148-168): a 403 has its body read, any
\* other non-success status throws, a success status has its body read
LookupResponds(res, threw) ==
    /\ pc = "awaitFetch"
    /\ keysRes' = res
    /\ IF res.status = 403
       THEN pc' = "awaitJsonRevoked" /\ UNCHANGED <<req, trace, promise>>
       ELSE IF ~Ok(res.status)
       THEN Return(CatchBlock(trace, threw))
       ELSE pc' = "awaitJsonKey" /\ UNCHANGED <<req, trace, promise>>
    /\ UNCHANGED <<opts, now, ticks, wire, local, signed, checkedAt>>
    /\ UNCHANGED outsideMiddleware

\* the body of a 403 is parsed (lines 152-167)
RevokedBodyRead(threw1, threw2) ==
    /\ pc = "awaitJsonRevoked"
    /\ LET body == keysRes.body
           revoked == [timestamp |-> local.timestamp, revoked |-> TRUE, verified |-> FALSE,
                       error |-> "Bot identity has been revoked"]
       IN  IF body.parse # "object"
           THEN Return(CatchBlock(trace, threw1))
           ELSE IF RevokedFlag(body)
           THEN Return(InTry(revoked,
                    RejectOrNext(trace, revoked, 403,
                                 [revoked |-> TRUE,
                                  error |-> "Bot identity has been revoked"], threw1),
                    threw2))
           ELSE Return(CatchBlock(trace, threw1))
    /\ UNCHANGED <<opts, now, ticks, wire, local, keysRes, signed, checkedAt>>
    /\ UNCHANGED outsideMiddleware

\* the body of a success response is parsed and the signature checked (lines 168-190)
KeyBodyRead(threw1, threw2) ==
    /\ pc = "awaitJsonKey"
    /\ LET body == keysRes.body
       IN  IF body.parse # "object"
           THEN Return(CatchBlock(trace, threw1))
           ELSE LET publicKey == IF "publicKey" \in DOMAIN body.fields
                                 THEN Str(body.fields.publicKey) ELSE Undefined
                    \* (req.originalUrl ?? req.url ?? "/").split("?")[0]
                    reqPath == (LET r == req IN SplitQuery0(Coalesce(r.originalUrl, Coalesce(r.url,
                            Str(<<"/">>))).v))
                    reqMethod == ReqMethod(req)
                    \* `${timestamp}.${botId}.${reqMethod}.${reqPath}`
                    message == (LET timestamp == local.timestamp botId == local.botId
                            IN NumberToString(timestamp) \o <<".">> \o botId \o <<".">> \o reqMethod \o <<".">> \o reqPath)
                    verified == verifySignature(message, local.signature, publicKey)
                    result == IF verified
                              THEN [timestamp |-> local.timestamp,
                                    verified |-> TRUE,
                                    bot |-> [name |-> local.botId, id |-> local.botId,
                                             deployer_id |-> <<>>]]
                              ELSE [timestamp |-> local.timestamp, verified |-> FALSE]
                    tr == Append(trace, [message |-> message, op |-> "verifySignature",
                                        BotID |-> req.BotID, result |-> verified])
                IN  IF ~verified /\ opts.requireVerified
                    THEN Return(InTry(result,
                             Reject(tr, result, 403,
                                    [error |-> "Bot identity verification failed"], threw1),
                             threw2))
                    ELSE Return(InTry(result, CallNext(tr, result, threw1), threw2))
    /\ UNCHANGED <<opts, now, ticks, wire, local, keysRes, signed, checkedAt>>
    /\ UNCHANGED outsideMiddleware

Next ==
    \/ pc = "idle" /\ \E url \in ({<<Origin>>, <<Origin, "/", "a">>, <<Origin, "/", "a", "?",
            "q">>, <<Origin, "/", "b", "#", "f">>}), m \in {Undefined, Str(<<"g", "e", "t">>),
            Str(POST),
                                                  Str(<<"p", "a", "t", "c", "h">>)} : ClientFetch(url, m)
    \/ Deliver
    \/ pc = "idle" /\ \E m \in ReqMethods, u \in ReqUrls, b \in BotIdHeaders,
                          t \in TimestampHeaders, j \in ({Undefined, Str(<<>>), Str(<<"z", "z">>)}) :
                        Receive(m, u, b, t, j, None)
    \/ pc = "idle" /\ \E m \in ReqMethods, u \in ReqUrls, b \in BotIdHeaders,
                          t \in TimestampHeaders, sg \in ([timestamp : {SignedAt}, botId : {B1,
                                  B2}, method : {GET, POST}, path : {<<"/", "a">>, <<"/", "b">>},
                                  key : {ClientKey}]) :
                        Receive(m, u, b, t, Str(SignatureOf(sg)), sg)
    \/ pc = "idle" /\ \E m \in ReqMethods, u \in ReqUrls, b \in BotIdHeaders,
                          t \in TimestampHeaders,
                                  s \in ({Str(signMessage(TestMessage(Num(SignedAt), b),
                                  PrivateKeyHex(ClientKey))) : b \in {B1, B2}}) :
                        Receive(m, u, b, t, s, None)
    \/ \E d \in {300, 301} : Tick(d)
    \/ \E threw \in BOOLEAN : Invoke(threw)
    \/ \E threw \in BOOLEAN : LookupFails(threw)
    \/ pc = "awaitFetch" /\ \E res \in Responses, threw \in BOOLEAN : LookupResponds(res, threw)
    \/ \E threw1 \in BOOLEAN, threw2 \in BOOLEAN : RevokedBodyRead(threw1, threw2)
    \/ \E threw1 \in BOOLEAN, threw2 \in BOOLEAN : KeyBodyRead(threw1, threw2)

Spec == Init /\ [][Next]_vars

---------------------------------------------------------------------------
(* The credential store: one process calling the store functions *)

\* what a step of the store specification leaves alone
outsideStore == <<middlewareVars, loginVars, race, agentVars, other, registry>>

StoreInit ==
    /\ opts = [onUnverified |-> FALSE, requireVerified |-> TRUE,
               apiUrl |-> normalizeUrl(Undefined)]
    /\ MiddlewareIdle
    /\ dir \in BOOLEAN
    /\ credentialsFile \in (IF dir THEN ({AbsentFile, [file |-> "unreadable"], GarbageFile,
            JsonFile(JNull), JsonFile(JObj(<<>>)), JsonFile(JObj(<<<<"agents", JArr(<<>>)>>>>)),
            JsonFile(JObj(<<<<"agents", JStr("x")>>>>)), JsonFile(EmptyStore),
            JsonFile(JObj(<<<<"agents", JObj(<<<<"a", Creds("a", "b2", "k2")>>>>)>>>>)),
            \* a store that can be written but not read (mode 0200, EACCES on read)
            [v |-> JObj(<<<<"agents", JObj(<<<<"a", Creds("a", "b2", "k2")>>>>)>>>>),
             file |-> "unreadable"]})
            ELSE {AbsentFile})
    /\ authFile \in (IF dir
                    THEN {AbsentFile, GarbageFile, JsonFile(JNull)}
                         \cup {JsonFile(s) : s \in SessionInputs}
                    ELSE {AbsentFile})
    /\ call = NoCall
    /\ lastSaved = [n \in Names |-> Undefined]
    /\ LoginAtRest
    /\ OthersAtRest

GetCredentials(name) ==
    /\ dir' = TRUE
    /\ call' = StoreCall("getCredentials", name, Undefined, credentialsFile,
                         getCredentials(credentialsFile, name))
    /\ UNCHANGED <<credentialsFile, authFile, lastSaved>>
    /\ UNCHANGED outsideStore

SaveCredentials(creds, ok) ==
    LET out == saveCredentials(credentialsFile, creds, ok)
    IN  /\ dir' = TRUE
        /\ credentialsFile' = out.file
        /\ call' = StoreCall("saveCredentials", NameOf(creds), creds, credentialsFile, out)
        /\ lastSaved' = IF out.threw THEN lastSaved
                        ELSE [lastSaved EXCEPT ![NameOf(creds)] = creds]
        /\ UNCHANGED authFile
        /\ UNCHANGED outsideStore

ListAgents ==
    /\ dir' = TRUE
    /\ call' = StoreCall("listAgents", "", Undefined, credentialsFile,
                         listAgents(credentialsFile))
    /\ UNCHANGED <<credentialsFile, authFile, lastSaved>>
    /\ UNCHANGED outsideStore

RemoveCredentials(name, ok) ==
    LET out == removeCredentials(credentialsFile, name, ok)
    IN  /\ dir' = TRUE
        /\ credentialsFile' = out.file
        /\ call' = StoreCall("removeCredentials", name, Undefined, credentialsFile, out)
        /\ lastSaved' = IF out.threw THEN lastSaved
                        ELSE [lastSaved EXCEPT ![name] = Undefined]
        /\ UNCHANGED authFile
        /\ UNCHANGED outsideStore

SaveAuthSession(session, ok) ==
    LET out == saveAuthSession(authFile, session, ok)
    IN  /\ dir' = TRUE
        /\ authFile' = out.file
        /\ call' = StoreCall("saveAuthSession", "", session, authFile, out)
        /\ UNCHANGED <<credentialsFile, lastSaved>>
        /\ UNCHANGED outsideStore

GetAuthSession ==
    /\ dir' = TRUE
    /\ call' = StoreCall("getAuthSession", "", Undefined, authFile, getAuthSession(authFile))
    /\ UNCHANGED <<credentialsFile, authFile, lastSaved>>
    /\ UNCHANGED outsideStore

ClearAuthSession ==
    LET out == clearAuthSession(authFile)
    IN  /\ authFile' = out.file
        /\ call' = StoreCall("clearAuthSession", "", Undefined, authFile, out)
        /\ UNCHANGED <<dir, credentialsFile, lastSaved>>
        /\ UNCHANGED outsideStore

StoreNext ==
    \/ \E name \in Names : GetCredentials(name)
    \/ \E creds \in {Creds("a", "b1", "k1"), Creds("a", "b2", "k2"), Creds("b", "b1", "k1"),
                      Creds("constructor", "b1", "k1"), Creds("__proto__", "b1", "k1")},
          ok \in BOOLEAN : SaveCredentials(creds, ok)
    \/ ListAgents
    \/ \E name \in Names, ok \in BOOLEAN : RemoveCredentials(name, ok)
    \/ \E session \in SessionInputs, ok \in BOOLEAN : SaveAuthSession(session, ok)
    \/ GetAuthSession
    \/ ClearAuthSession

StoreSpec == StoreInit /\ [][StoreNext]_vars

---------------------------------------------------------------------------
(* The device authorization flow: one invocation of deviceLogin *)

\* what a step of the flow leaves alone (it writes the session file)
outsideLogin ==
    <<middlewareVars, credentialsFile, call, lastSaved, race, agentVars, other, registry>>

LoginInit ==
    /\ opts = [onUnverified |-> FALSE, requireVerified |-> TRUE,
               apiUrl |-> normalizeUrl(Undefined)]
    /\ MiddlewareIdle
    /\ dir \in BOOLEAN
    /\ credentialsFile = AbsentFile
    /\ authFile \in (IF dir THEN {AbsentFile} \cup {JsonFile(s) : s \in SessionInputs}
                     ELSE {AbsentFile})
    /\ call = NoCall
    /\ lastSaved = [n \in Names |-> Undefined]
    /\ LoginAtRest
    /\ OthersAtRest

\* deviceLogin settles: its promise resolves or rejects
Settle(tr, result) ==
    /\ lpc' = "done"
    /\ ltrace' = tr
    /\ lresult' = result

\* mutant: the next poll is not preceded by a sleep
LoopOrTimeOutNoSleep(tr, clock, startTime, codeResponse) ==
    IF WithinValidity(clock - startTime, codeResponse.expiresIn * 1000)
    THEN /\ lpc' = "sleeping"
         /\ ltrace' = tr
         /\ lresult' = lresult
    ELSE Settle(tr, Rejected(TimedOut))

\* the loop condition (line 86) and, when it holds, the timer of line 87
LoopOrTimeOut(tr, clock, startTime, codeResponse) ==
    IF WithinValidity(clock - startTime, codeResponse.expiresIn * 1000)
    THEN /\ lpc' = "sleeping"
         /\ ltrace' = Append(tr, [op |-> "setTimeout", ms |-> codeResponse.interval * 1000])
         /\ lresult' = lresult
    ELSE Settle(tr, Rejected(TimedOut))

\* deviceLogin(options) up to the device code request (lines 59-60, 19-23)
DeviceLogin(apiUrl, onOpen) ==
    /\ lpc = "idle"
    /\ flow' = [apiUrl |-> normalizeUrl(apiUrl),
                startTime |-> 0,
                codeResponse |-> None, options |-> [apiUrl |-> apiUrl, onOpen |-> onOpen],
                sessionAtStart |-> authFile]
    /\ ltrace' = <<[url |-> normalizeUrl(Str(normalizeUrl(apiUrl))) \o <<"/api/device/code">>,
                    op |-> "fetch"]>>
    /\ lresult' = [state |-> "pending"]
    /\ lpc' = "awaitCode"
    /\ UNCHANGED <<lclock, lastPoll, browser, dir, authFile>>
    /\ UNCHANGED outsideLogin

\* the device code request fails on the network
CodeRequestFails ==
    /\ lpc = "awaitCode"
    /\ Settle(ltrace, Rejected(Str("fetch failed")))
    /\ UNCHANGED <<lclock, flow, lastPoll, browser, dir, authFile>>
    /\ UNCHANGED outsideLogin

\* the device code request is answered (lines 25-29) and the prompt is
\* reported (line 62)
CodeResponds(res, promptThrew) ==
    /\ lpc = "awaitCode"
    /\ IF ~Ok(res.status)
       THEN /\ Settle(ltrace, Rejected([message |-> "Failed to request device code",
                                        status |-> res.status]))
            /\ UNCHANGED flow
       ELSE IF res.body.parse = "error"
       THEN Settle(ltrace, Rejected(Str("SyntaxError"))) /\ UNCHANGED flow
       ELSE IF res.body.parse = "null"
       THEN Settle(ltrace, Rejected(Str("TypeError"))) /\ UNCHANGED flow
       ELSE LET codeResponse == res.body.fields
                tr == Append(ltrace, [threw |-> promptThrew,
                                       op |-> "onPrompt",
                                       userCode |-> codeResponse.userCode,
                                       verificationUrl |-> codeResponse.verificationUrl])
            IN  /\ flow' = [flow EXCEPT !.codeResponse = codeResponse]
                /\ IF promptThrew
                   THEN Settle(tr, Rejected(Str("onPrompt threw")))
                   ELSE /\ lpc' = "awaitOpen"
                        /\ ltrace' = tr
                        /\ lresult' = lresult
    /\ UNCHANGED <<lclock, lastPoll, browser, dir, authFile>>
    /\ UNCHANGED outsideLogin

\* the best-effort browser open (lines 64-80), then the start of polling
\* (lines 82-87)
OpenBrowser(outcome, onOpenThrew) ==
    /\ lpc = "awaitOpen"
    /\ browser' = outcome
    /\ LET codeResponse == flow.codeResponse
           called == outcome # "importFailed"
           returned == outcome \in {"opened", "failedLater"}
           tr1 == IF called
                  THEN Append(ltrace, [threw |-> ~returned,
                                      op |-> "execFile",
                                      userCode |-> codeResponse.userCode,
                                      verificationUrl |-> codeResponse.verificationUrl])
                  ELSE ltrace
           tr2 == IF returned /\ flow.options.onOpen THEN Append(tr1, [threw |-> onOpenThrew,
                   op |-> "onOpen"]) ELSE tr1
       IN  /\ flow' = [flow EXCEPT !.startTime = lclock]
           /\ LoopOrTimeOut(tr2, lclock, lclock, codeResponse)
    /\ UNCHANGED <<lclock, lastPoll, dir, authFile>>
    /\ UNCHANGED outsideLogin

\* the timer fires and the poll request is sent (lines 87-89, 36-41)
Wake(lag) ==
    /\ lpc = "sleeping"
    /\ lclock' = lclock + flow.codeResponse.interval * 1000 + lag
    /\ ltrace' = Append(ltrace, [url |-> normalizeUrl(Str(flow.apiUrl)) \o <<"/api/device/poll">>,
                                 op |-> "fetch",
                                 deviceCode |-> flow.codeResponse.deviceCode,
                                 at |-> lclock'])
    /\ lpc' = "awaitPoll"
    /\ UNCHANGED <<flow, lastPoll, lresult, browser, dir, authFile>>
    /\ UNCHANGED outsideLogin

\* the poll request fails on the network
\* mutant: a poll that failed on the network is retried
PollFailsRetried(latency) ==
    /\ lpc = "awaitPoll"
    /\ lclock' = lclock + latency
    /\ lastPoll' = NetworkError
    /\ LoopOrTimeOut(ltrace, lclock', flow.startTime, flow.codeResponse)
    /\ UNCHANGED <<flow, browser, dir, authFile>>
    /\ UNCHANGED outsideLogin

PollFails(latency) ==
    /\ lpc = "awaitPoll"
    /\ lclock' = lclock + latency
    /\ lastPoll' = NetworkError
    /\ Settle(ltrace, Rejected(Str("fetch failed")))
    /\ UNCHANGED <<flow, browser, dir, authFile>>
    /\ UNCHANGED outsideLogin

\* the poll request is answered (lines 43-47) and classified (lines 91-111)
PollResponds(res, latency, ok) ==
    /\ lpc = "awaitPoll"
    /\ lclock' = lclock + latency
    /\ lastPoll' = res
    /\ IF ~(Ok(res.status) \/ res.status = 202)
       THEN /\ Settle(ltrace, Rejected([message |-> "Device poll failed",
                                        status |-> res.status]))
            /\ UNCHANGED <<dir, authFile>>
       ELSE IF res.body.parse = "error"
       THEN Settle(ltrace, Rejected(Str("SyntaxError"))) /\ UNCHANGED <<dir, authFile>>
       ELSE IF res.body.parse = "null"
       THEN Settle(ltrace, Rejected(Str("TypeError"))) /\ UNCHANGED <<dir, authFile>>
       \* poll.status === "complete" && poll.accessToken
       ELSE IF (LET poll == res.body IN Field(poll,
               "status") = Str("complete") /\ ~Falsy(Field(poll, "accessToken")))
       THEN LET accessToken == Field(res.body, "accessToken")
                session == Session(accessToken.v, flow.apiUrl, ToISOString(lclock'))
                out == saveAuthSession(authFile, session, ok)
                tr == Append(ltrace, [op |-> "saveAuthSession", session |-> session, at |-> lclock'])
            IN  /\ dir' = TRUE
                /\ authFile' = out.file
                /\ IF out.threw
                   THEN Settle(tr, Rejected(Str("write failed")))
                   ELSE Settle(tr, [state |-> "resolved", token |-> accessToken])
       ELSE IF TerminalError(res.body) # Undefined
       THEN Settle(ltrace, Rejected(TerminalError(res.body))) /\ UNCHANGED <<dir, authFile>>
       ELSE /\ LoopOrTimeOut(ltrace, lclock', flow.startTime, flow.codeResponse)
            /\ UNCHANGED <<dir, authFile>>
    /\ UNCHANGED <<flow, browser>>
    /\ UNCHANGED outsideLogin

LoginNext ==
    \/ \E apiUrl \in {Undefined, Str(<<"https://r.example", "/">>)},
            onOpen \in BOOLEAN : DeviceLogin(apiUrl, onOpen)
    \/ CodeRequestFails
    \/ \E res \in [status : {200}, body : ({Unparseable, JsonNull, CodeResponse(0, 1),
            CodeResponse(1, 0), CodeResponse(2, 1), CodeResponse(1, 2)})] \cup [status : {500},
            body : {Unparseable}],
          promptThrew \in BOOLEAN : CodeResponds(res, promptThrew)
    \/ \E outcome \in {"importFailed", "execThrew", "opened", "failedLater"},
          onOpenThrew \in BOOLEAN : OpenBrowser(outcome, onOpenThrew)
    \/ \E lag \in {0, 1} : Wake(lag)
    \/ \E latency \in PollLatencies : PollFails(latency)
    \/ \E res \in PollResponses, latency \in PollLatencies, ok \in BOOLEAN :
          PollResponds(res, latency, ok)

LoginSpec == LoginInit /\ [][LoginNext]_vars

\* every request is answered or fails, every timer fires, and the calls the
\* flow makes return: a flow that can take a step takes one
LoginFairSpec == LoginSpec /\ WF_vars(LoginNext)

---------------------------------------------------------------------------
(* Two processes writing the credentials file: each runs saveCredentials or  *)
(* removeCredentials once; readStore (lines 59, 69) and writeStore (lines    *)
(* 61, 72) of a call are separate steps, and the other process may run       *)
(* between them                                                              *)

\* what a step of a writing process leaves alone
outsideRace ==
    <<middlewareVars, loginVars, authFile, call, lastSaved, agentVars, other, registry>>

RaceInit ==
    /\ opts = [onUnverified |-> FALSE, requireVerified |-> TRUE,
               apiUrl |-> normalizeUrl(Undefined)]
    /\ MiddlewareIdle
    /\ dir = TRUE
    /\ credentialsFile \in
           {AbsentFile, GarbageFile, JsonFile(EmptyStore),
            JsonFile(JObj(<<<<"agents", JObj(<<<<"a", Creds("a", "b2", "k2")>>>>)>>>>))}
    /\ authFile = AbsentFile
    /\ call = NoCall
    /\ lastSaved = [n \in Names |-> Undefined]
    /\ LoginAtRest
    /\ race = [w |-> [p \in {1, 2} |-> [pc |-> "idle", c |-> None, read |-> None]],
               initial |-> credentialsFile,
               log |-> <<>>]
    /\ ipc = "idle" /\ icall = None /\ ilocal = None /\ itrace = <<>> /\ iresult = None
    /\ other = None
    /\ registry = {}

\* process p enters saveCredentials(c.creds) or removeCredentials(c.name) and
\* runs readStore(): the store it works on is the file as it is now
WriterReads(p, c) ==
    /\ race.w[p].pc = "idle"
    /\ race' = [race EXCEPT !.w[p] = [pc |-> "read", c |-> c, read |-> credentialsFile],
                            !.log = Append(@, [p |-> p, step |-> "read"])]
    /\ UNCHANGED <<dir, credentialsFile>>
    /\ UNCHANGED outsideRace

\* mutant: the store is read again when it is written
WriterWritesFresh(p) ==
    /\ race.w[p].pc = "read"
    /\ LET c == race.w[p].c
           out == IF c.op = "save" THEN saveCredentials(credentialsFile, c.creds, TRUE)
                  ELSE removeCredentials(credentialsFile, c.name, TRUE)
       IN  /\ credentialsFile' = out.file
           /\ race' = [race EXCEPT !.w[p].pc = "done",
                                   !.log = Append(@, [p |-> p, file |-> out.file,
                                                      step |-> "write"])]
    /\ UNCHANGED dir
    /\ UNCHANGED outsideRace

\* process p runs the rest of its call on the store it read: the change of
\* the map and writeStore(store), or the early return of removeCredentials
WriterWrites(p) ==
    /\ race.w[p].pc = "read"
    /\ LET c == race.w[p].c
           out == IF c.op = "save" THEN saveCredentials(race.w[p].read, c.creds, TRUE)
                  ELSE removeCredentials(race.w[p].read, c.name, TRUE)
       IN  IF out.wrote /\ ~out.threw
           THEN /\ credentialsFile' = out.file
                /\ race' = [race EXCEPT !.w[p].pc = "done",
                                        !.log = Append(@, [p |-> p, file |-> out.file,
                                                           step |-> "write"])]
           ELSE /\ UNCHANGED credentialsFile
                /\ race' = [race EXCEPT !.w[p].pc = "done",
                                        !.log = Append(@, [p |-> p, step |-> "return"])]
    /\ UNCHANGED dir
    /\ UNCHANGED outsideRace

RaceNext ==
    \/ \E p \in {1, 2}, creds \in {Creds("a", "b1", "k1"), Creds("b", "b1", "k1")} :
          WriterReads(p, [name |-> NameOf(creds), op |-> "save", creds |-> creds])
    \/ \E p \in {1, 2}, name \in {"a", "b"} :
          WriterReads(p, [name |-> name, op |-> "remove", creds |-> Undefined])
    \/ \E p \in {1, 2} : WriterWrites(p)

RaceSpec == RaceInit /\ [][RaceNext]_vars

---------------------------------------------------------------------------
(* Agent bootstrap: init, src/src/init.ts, and calls of fetch and verify on  *)
(* the BotIDClient it returns (src/src/store.ts lines 131-178)               *)

\* what a step of init or of its client leaves alone
outsideAgent ==
    <<middlewareVars, loginVars, authFile, call, lastSaved, race, other, registry>>

\* a string member read from a parsed JSON value, undefined when there is none
FromJ(v) == IF Kind(v) = "string" THEN Str(v.s) ELSE Undefined

\* getAuthSession()?.accessToken
SessionToken(file) ==
    LET session == getAuthSession(file).value
    IN  IF Kind(session) \in {"undefined", "null"} THEN Undefined
        ELSE FromJ(GetProp(session, "accessToken").value)

\* mutant: the environment variable is consulted first
ResolveTokenEnvFirst(options, env, file) ==
    Coalesce(env, Coalesce(options.accessToken, SessionToken(file)))

\* options.accessToken ?? process.env.BOTID_TOKEN ?? getAuthSession()?.accessToken
ResolveToken(options, env, file) ==
    Coalesce(options.accessToken, Coalesce(env, SessionToken(file)))

\* mutant: the private key is sent in the place of the public key
RegisterRequestPrivate(apiUrl, accessToken, name, k) ==
    [url |-> apiUrl \o <<"/api/register">>, method |-> POST,
     body |-> [publicKey |-> PrivateKeyHex(k), name |-> name],
     headers |-> [ContentType |-> <<"application/json">>,
                  Authorization |-> <<"Bearer", " ">> \o accessToken],
     op |-> "register"]

\* the request of lines 62-72, for the key pair k that generateKeypair() made
RegisterRequest(apiUrl, accessToken, name, k) ==
    [url |-> apiUrl \o <<"/api/register">>, method |-> POST,
     body |-> [publicKey |-> PublicKeyHex(k), name |-> name],
     headers |-> [ContentType |-> <<"application/json">>,
                  Authorization |-> <<"Bearer", " ">> \o accessToken],
     op |-> "register"]

\* mutant: the client is built without its private key
NewClientNoKey(botId, privateKey, apiUrl) ==
    [client |-> [botId |-> botId, privateKey |-> Undefined, apiUrl |-> normalizeUrl(apiUrl)],
     state |-> "resolved"]

\* new BotIDClient({botId, privateKey, apiUrl}): botId and privateKey as given
\* (a string or undefined), apiUrl normalized
NewClient(botId, privateKey, apiUrl) ==
    [client |-> [botId |-> botId, privateKey |-> privateKey, apiUrl |-> normalizeUrl(apiUrl)],
     state |-> "resolved"]

AgentInit ==
    /\ opts = [onUnverified |-> FALSE, requireVerified |-> TRUE,
               apiUrl |-> normalizeUrl(Undefined)]
    /\ MiddlewareIdle
    /\ dir = TRUE
    /\ credentialsFile \in
           {AbsentFile, JsonFile(JNull), JsonFile(JObj(<<<<"agents", JStr("x")>>>>)),
            JsonFile(JObj(<<<<"agents",
                JObj(<<<<"a", Creds("a", B2, PrivateKeyHex("k2"))>>>>)>>>>))}
    /\ authFile \in {AbsentFile, JsonFile(JNull)} \cup {JsonFile(x) : x \in SessionInputs}
    /\ call = NoCall
    /\ lastSaved = [n \in Names |-> Undefined]
    /\ LoginAtRest
    /\ race = None
    /\ ipc = "idle" /\ icall = None /\ ilocal = None /\ itrace = <<>> /\ iresult = None
    /\ other = None
    /\ registry = {}

\* init ends: its promise resolves with a client or rejects
InitSettle(tr, result) ==
    /\ ipc' = "done"
    /\ itrace' = tr
    /\ iresult' = result

\* init from its entry to its first await (lines 33-72): the stored
\* credentials, the access token, the key pair, the registration request
InitCall(options, env, k) ==
    /\ ipc = "idle"
    /\ icall' = [options |-> options, env |-> env, storeAtStart |-> credentialsFile]
    /\ LET apiUrl == normalizeUrl(options.apiUrl)
           existing == getCredentials(credentialsFile, options.name)
           tr1 == <<[name |-> options.name, op |-> "getCredentials"]>>
           accessToken == ResolveToken(options, env, authFile)
           tr2 == IF options.accessToken = Undefined /\ env = Undefined
                  THEN Append(tr1, [op |-> "getAuthSession"]) ELSE tr1
       IN  IF existing.threw
           THEN InitSettle(tr1, Rejected(Str("TypeError"))) /\ UNCHANGED ilocal
           ELSE IF Kind(existing.value) \notin {"undefined", "null"}
           THEN /\ InitSettle(tr1, NewClient(FromJ(GetProp(existing.value, "botId").value),
                                             FromJ(GetProp(existing.value, "privateKey").value),
                                             FromJ(GetProp(existing.value, "apiUrl").value)))
                /\ UNCHANGED ilocal
           ELSE IF Falsy(accessToken)
           THEN InitSettle(tr2, Rejected(Str("Authentication required"))) /\ UNCHANGED ilocal
           ELSE /\ ilocal' = [key |-> k, apiUrl |-> apiUrl, accessToken |-> accessToken.v,
                              res |-> None]
                /\ itrace' = tr2 \o <<[op |-> "generateKeypair", key |-> k],
                                      RegisterRequest(apiUrl, accessToken.v, options.name, k)>>
                /\ iresult' = [state |-> "pending"]
                /\ ipc' = "awaitRegister"
    /\ UNCHANGED <<dir, credentialsFile>>
    /\ UNCHANGED outsideAgent

\* the registration request fails on the network: fetch rejects
RegisterFails ==
    /\ ipc = "awaitRegister"
    /\ ilocal' = [ilocal EXCEPT !.res = NetworkError]
    /\ InitSettle(itrace, Rejected(Str("fetch failed")))
    /\ UNCHANGED <<icall, dir, credentialsFile>>
    /\ UNCHANGED outsideAgent

\* the registration request is answered (lines 74-98); ok: the write of the
\* credentials file succeeds
RegisterResponds(res, ok) ==
    /\ ipc = "awaitRegister"
    /\ ilocal' = [ilocal EXCEPT !.res = res]
    /\ IF ~Ok(res.status)
       THEN /\ InitSettle(itrace, Rejected([message |-> "BotID registration failed (HTTP",
                                            status |-> res.status]))
            /\ UNCHANGED credentialsFile
       ELSE IF res.body.parse = "error"
       THEN InitSettle(itrace, Rejected(Str("SyntaxError"))) /\ UNCHANGED credentialsFile
       ELSE IF res.body.parse = "null"
       THEN InitSettle(itrace, Rejected(Str("TypeError"))) /\ UNCHANGED credentialsFile
       ELSE IF \/ "success" \notin DOMAIN res.body.fields
               \/ ~res.body.fields.success
               \/ Falsy(Field(res.body, "botId"))
       THEN /\ InitSettle(itrace,
                    Rejected([message |-> "BotID registration failed:",
                              error |-> Coalesce(Field(res.body, "error"),
                                                 Str("Unknown error"))]))
            /\ UNCHANGED credentialsFile
       ELSE LET botId == Field(res.body, "botId")
                deployer == Field(res.body, "deployer")
                privateKey == PrivateKeyHex(ilocal.key)
                creds == JObj(<<<<"botId", JStr(botId.v)>>,
                                <<"privateKey", JStr(privateKey)>>,
                                <<"name", JStr(icall.options.name)>>,
                                <<"deployer", IF deployer = Undefined THEN Undefined
                                              ELSE JStr(deployer.v)>>,
                                <<"apiUrl", JStr(ilocal.apiUrl)>>,
                                <<"createdAt", JStr(ToISOString(now))>>>>)
                out == saveCredentials(credentialsFile, creds, ok)
                tr == Append(itrace, [op |-> "saveCredentials", creds |-> creds])
            IN  /\ credentialsFile' = out.file
                /\ IF out.threw
                   THEN InitSettle(tr, Rejected(Str("saveCredentials threw")))
                   ELSE InitSettle(tr, NewClient(botId, Str(privateKey), Str(ilocal.apiUrl)))
    /\ UNCHANGED <<icall, dir>>
    /\ UNCHANGED outsideAgent

\* the calls made on the client so far
ClientCalls == SelectSeq(itrace, LAMBDA e : e.op \in {"clientFetch", "verify"})

\* client.fetch(url, init) on the client init returned (lines 143-155): a
\* client without a private key throws in signMessage
ClientFetchCall(url, init) ==
    /\ ipc = "done" /\ iresult.state = "resolved"
    /\ Len(ClientCalls) < MaxCalls
    /\ LET client == iresult.client
       IN  itrace' = Append(itrace,
               IF client.botId = Undefined \/ client.privateKey = Undefined
               THEN [url |-> url, init |-> init, threw |-> TRUE, op |-> "clientFetch"]
               ELSE [url |-> url, init |-> init, threw |-> FALSE, op |-> "clientFetch",
                     passed |-> ClientFetchRequest(
                                    [botId |-> client.botId.v,
                                     privateKey |-> client.privateKey.v],
                                    url, init, now),
                     at |-> now])
    /\ UNCHANGED <<ipc, icall, ilocal, iresult, dir, credentialsFile>>
    /\ UNCHANGED outsideAgent

\* client.verify() on the client init returned (lines 158-176): the message
\* is built from the constants POST and /api/verify, the request goes to
\* `${this.apiUrl}/api/verify`, and the call returns res.json() whatever the
\* status is (a body that is not JSON rejects, as a failed fetch does)
ClientVerify(res) ==
    /\ ipc = "done" /\ iresult.state = "resolved"
    /\ Len(ClientCalls) < MaxCalls
    /\ LET client == iresult.client
           timestamp == Num(now)
           path == <<"/", "a", "p", "i", "/", "v", "e", "r", "i", "f", "y">>
       IN  itrace' = Append(itrace,
               IF client.botId = Undefined \/ client.privateKey = Undefined
               THEN [threw |-> TRUE, op |-> "verify"]
               ELSE [message |-> ClientMessage(timestamp, client.botId.v, POST, path),
                     url |-> client.apiUrl \o path,
                     method |-> POST,
                     body |-> [timestamp |-> timestamp,
                               botId |-> client.botId.v,
                               method |-> POST,
                               signature |-> signMessage(
                                   ClientMessage(timestamp, client.botId.v, POST, path),
                                   client.privateKey.v),
                               path |-> path],
                     headers |-> [ContentType |-> <<"application/json">>],
                     threw |-> FALSE,
                     op |-> "verify",
                     returned |-> IF res = NetworkError
                                  THEN Rejected(Str("fetch failed"))
                                  ELSE IF res.body.parse = "error"
                                  THEN Rejected(Str("SyntaxError"))
                                  ELSE [value |-> res.body, state |-> "resolved"],
                     response |-> res])
    /\ UNCHANGED <<ipc, icall, ilocal, iresult, dir, credentialsFile>>
    /\ UNCHANGED outsideAgent

\* botid login, then init in the application, then the client at work
AgentNext ==
    \/ ipc = "idle" /\ DeviceLogin(Undefined, FALSE)
    \/ ipc = "idle" /\ CodeResponds([body |-> CodeResponse(2, 1), status |-> 200], FALSE)
    \/ ipc = "idle" /\ OpenBrowser("opened", FALSE)
    \/ ipc = "idle" /\ Wake(0)
    \/ ipc = "idle" /\ \E body \in {Obj([status |-> Str("pending")]),
                                      Obj([status |-> Str("complete"),
                                           accessToken |-> Str(<<"t", "1">>)])} :
                          PollResponds([body |-> body, status |-> 200], MinLatency, TRUE)
    \/ lpc \in {"idle", "done"}
          /\ \E options \in ([name : {"a", "b", "constructor"}, accessToken : {Undefined,
                  Str(<<>>), Str(<<"t", "o">>)}, apiUrl : {Undefined, Str(<<"https://r.example",
                  "/">>), Str(<<"https://r.example", "/", "v", "1">>)}]),
                env \in {Undefined, Str(<<>>), Str(<<"t", "e">>)},
                k \in Keys : InitCall(options, env, k)
    \/ RegisterFails
    \/ \E body \in ({Unparseable, JsonNull, Obj([botId |-> Str(B1), deployer |-> Str(<<"d">>),
            success |-> TRUE]), Obj([botId |-> Str(B2), success |-> TRUE]),
            Obj([success |-> TRUE]), Obj([botId |-> Str(<<>>), success |-> TRUE]),
            Obj([botId |-> Str(B1), success |-> FALSE]), Obj([error |-> Str(<<"t", "a", "k", "e", "n">>),
            success |-> FALSE]), Obj([botId |-> Str(B1)])}),
            ok \in BOOLEAN :
          RegisterResponds([body |-> body, status |-> 200], ok)
    \/ \E body \in {Unparseable, Obj([botId |-> Str(B1), success |-> TRUE]),
                     Obj([error |-> Str(<<"t", "a", "k", "e", "n">>)])} :
          RegisterResponds([body |-> body, status |-> 500], TRUE)
    \/ \E url \in {<<Origin, "/", "a">>, <<Origin, "/", "a", "?", "q">>},
          init \in {[method |-> Undefined, body |-> Undefined, headers |-> <<>>],
                    [method |-> Str(<<"p", "o", "s", "t">>),
                     body |-> Str(<<"x">>),
                     headers |-> <<<<"Accept", Str(<<"j">>)>>, <<"X-BOTID", Str(B2)>>>>],
                    [method |-> Undefined,
                     body |-> Undefined,
                     headers |-> <<<<"x-botid-signature", Str(<<"z", "z">>)>>,
                                   <<"X-BotID-Timestamp", Str(<<"1">>)>>>>]} :
          ClientFetchCall(url, init)
    \/ \E res \in {NetworkError,
                    [body |-> Obj([botId |-> Str(B1), verified |-> TRUE]), status |-> 200],
                    [body |-> Obj([verified |-> FALSE,
                                                   error |-> Str(<<"r", "e", "v">>)]), status |-> 403],
                    [body |-> Unparseable, status |-> 500],
                    [body |-> JsonNull, status |-> 200]} :
          ClientVerify(res)

AgentSpec == AgentInit /\ [][AgentNext]_vars

---------------------------------------------------------------------------
(* Two invocations of init in one process: src/src/init.ts lines 33-99.  An   *)
(* invocation runs without interruption up to `await fetch` (line 62) and     *)
(* again from the answer to its end, so the process turns to the other        *)
(* invocation only where the running one awaits or has ended.  The second is  *)
(* called either while the first awaits its registration or after it ended.   *)

BootInit ==
    /\ opts = [onUnverified |-> FALSE, requireVerified |-> TRUE,
               apiUrl |-> normalizeUrl(Undefined)]
    /\ MiddlewareIdle
    /\ dir = TRUE
    /\ credentialsFile \in
           {AbsentFile, JsonFile(EmptyStore), JsonFile(JObj(<<<<"agents", JArr(<<>>)>>>>)),
            JsonFile(JObj(<<<<"agents",
                JObj(<<<<"a", Creds("a", B2, PrivateKeyHex("k2"))>>>>)>>>>))}
    /\ authFile = AbsentFile
    /\ call = NoCall
    /\ lastSaved = [n \in Names |-> Undefined]
    /\ LoginAtRest
    /\ race = None
    /\ ipc = "idle" /\ icall = None /\ ilocal = None /\ itrace = <<>> /\ iresult = None
    \* peerAtCall: where the first invocation was when the second was called
    \* (history)
    /\ other = [ipc |-> "idle", icall |-> None, ilocal |-> None, itrace |-> <<>>,
                iresult |-> None, id |-> 2, peerAtCall |-> "none"]
    /\ registry = {}

\* the process turns to the other invocation, each with its own locals; an
\* invocation that has not been called yet has nothing to be left at
SwitchInit ==
    /\ other # None
    /\ ipc # "idle"
    /\ ipc' = other.ipc /\ icall' = other.icall /\ ilocal' = other.ilocal
    /\ itrace' = other.itrace /\ iresult' = other.iresult
    /\ other' = [ipc |-> ipc, icall |-> icall, ilocal |-> ilocal, itrace |-> itrace,
                 iresult |-> iresult, id |-> 3 - other.id,
                 peerAtCall |-> IF other.ipc = "idle" THEN ipc ELSE other.peerAtCall]
    /\ UNCHANGED <<middlewareVars, storeVars, loginVars, race, registry>>

\* generateKeypair() makes a fresh key pair in each invocation
BootNext ==
    \/ \E name \in {"a", "b"}, accessToken \in {Undefined, Str(<<"t", "o">>)} :
          InitCall([name |-> name, apiUrl |-> Undefined, accessToken |-> accessToken],
                   Undefined, IF other.id = 2 THEN "k1" ELSE "k2")
    \/ RegisterFails
    \/ \E body \in {Obj([botId |-> Str(B1), deployer |-> Str(<<"d">>), success |-> TRUE]),
                     Obj([botId |-> Str(B2), success |-> TRUE])},
          ok \in BOOLEAN :
          RegisterResponds([body |-> body, status |-> 200], ok)
    \/ RegisterResponds([body |-> Unparseable, status |-> 500], TRUE)
    \/ SwitchInit

BootSpec == BootInit /\ [][BootNext]_vars

---------------------------------------------------------------------------
(* Two overlapping invocations of the middleware: src/src/verify.ts lines     *)
(* 100-206.  Node runs one invocation at a time and changes to another only   *)
(* where the running one awaits or has ended; the invocation's locals are the *)
(* closure's, so the one that is not running keeps its own in `other`.        *)

outsideServer == <<storeVars, loginVars, race, agentVars>>

\* the key the registry holds for a bot
RegistryKey(botId) == IF botId = B1 THEN "k1" ELSE "k2"

ServerInit ==
    /\ opts \in [requireVerified : BOOLEAN, onUnverified : BOOLEAN,
                 apiUrl : {normalizeUrl(Undefined)}]
    /\ MiddlewareIdle
    /\ StoreAtRest
    /\ LoginAtRest
    /\ race = None
    /\ ipc = "idle" /\ icall = None /\ ilocal = None /\ itrace = <<>> /\ iresult = None
    /\ other = [pc |-> "idle", req |-> None, local |-> None, keysRes |-> None, trace |-> <<>>,
                promise |-> "none", signed |-> None, checkedAt |-> <<>>, id |-> 2]
    /\ registry = {}

\* mutant: the registry's answer is kept in a variable the invocations share
SwitchSharingResponse ==
    /\ other # None
    /\ pc' = other.pc /\ req' = other.req /\ local' = other.local
    /\ trace' = other.trace /\ promise' = other.promise
    /\ signed' = other.signed /\ checkedAt' = other.checkedAt
    /\ other' = [pc |-> pc, req |-> req, local |-> local, keysRes |-> keysRes,
                 trace |-> trace, promise |-> promise, signed |-> signed,
                 checkedAt |-> checkedAt, id |-> 3 - other.id]
    /\ UNCHANGED <<opts, now, ticks, wire, keysRes, registry>>
    /\ UNCHANGED outsideServer

\* the event loop turns to the other invocation: each has its own req and locals
Switch ==
    /\ other # None
    /\ pc' = other.pc /\ req' = other.req /\ local' = other.local
    /\ keysRes' = other.keysRes
    /\ trace' = other.trace /\ promise' = other.promise
    /\ signed' = other.signed /\ checkedAt' = other.checkedAt
    /\ other' = [pc |-> pc, req |-> req, local |-> local, keysRes |-> keysRes,
                 trace |-> trace, promise |-> promise, signed |-> signed,
                 checkedAt |-> checkedAt, id |-> 3 - other.id]
    /\ UNCHANGED <<opts, now, ticks, wire, registry>>
    /\ UNCHANGED outsideServer

\* the registry revokes a bot, for good
Revoke(botId) ==
    /\ other # None
    /\ botId \notin registry
    /\ registry' = registry \cup {botId}
    /\ UNCHANGED <<middlewareVars, other>>
    /\ UNCHANGED outsideServer

ServerNext ==
    \/ pc = "idle" /\ \E b \in {Undefined, Str(B1), Str(B2)},
                          sg \in [timestamp : {SignedAt}, botId : {B1, B2}, method : {GET},
                                  path : {<<"/", "a">>}, key : Keys] :
                        Receive(Undefined, <<Str(<<"/", "a">>), Str(<<"/", "a">>)>>, b,
                                Str(NatToString(SignedAt)), Str(SignatureOf(sg)), sg)
    \/ Invoke(FALSE)
    \/ LookupFails(FALSE)
    \* GET /api/keys/{botId} as the registry answers it at this moment
    \/ pc = "awaitFetch" /\ LookupResponds((LET botId == local.botId IN IF botId \in registry
            THEN [body |-> Obj([revoked |-> TRUE]), status |-> 403]
            ELSE [body |-> Obj([publicKey |-> PublicKeyHex(RegistryKey(botId))]),
                  status |-> 200]), FALSE)
    \/ RevokedBodyRead(FALSE, FALSE)
    \/ KeyBodyRead(FALSE, FALSE)
    \/ Switch
    \/ \E b \in {B1, B2} : Revoke(b)

ServerSpec == ServerInit /\ [][ServerNext]_vars

---------------------------------------------------------------------------
(* Vocabulary of the properties *)

Done == pc = "done"

Called == pc \notin {"idle", "inflight"}

EventsOf(ops) == {i \in 1..Len(trace) : trace[i].op \in ops}

\* the calls that pass control on or answer the request
HandOvers == EventsOf({"next", "status", "json", "onUnverified"})

FirstOfEvents(is) == CHOOSE i \in is : \A j \in is : i <= j

\* every value req.BotID has had at a call, and has now
BotIDValues ==
    {trace[i].BotID : i \in 1..Len(trace)}
        \cup (IF Called THEN {req.BotID} ELSE {})

IsVerified(b) == "verified" \in DOMAIN b /\ b.verified

Present(name) == ~Falsy(getHeader(req, name))

AllHeadersPresent ==
    Present(HEADER_BOT_ID) /\ Present(HEADER_SIGNATURE) /\ Present(HEADER_TIMESTAMP)

NoHeaderPresent ==
    ~Present(HEADER_BOT_ID) /\ ~Present(HEADER_SIGNATURE) /\ ~Present(HEADER_TIMESTAMP)

ClaimedBotId == getHeader(req, HEADER_BOT_ID).v
ClaimedTimestamp == ToNumber(getHeader(req, HEADER_TIMESTAMP).v)
PresentedSignature == getHeader(req, HEADER_SIGNATURE).v

Answered == "status" \in DOMAIN keysRes

\* the request's own method, upper-cased, and its path without the query
OwnMethod == IF req.method.t = "undefined" THEN GET ELSE ToUpperCase(req.method.v)
OwnUrl ==
    IF req.originalUrl.t = "string" THEN req.originalUrl.v
    ELSE IF req.url.t = "string" THEN req.url.v
    ELSE <<"/">>
OwnPath == SubSeq(OwnUrl, 1, FirstOf(OwnUrl, {"?"}) - 1)

\* the terminal states of the verification state machine, read off the inputs
StNoIdentity == Called /\ NoHeaderPresent
StIncomplete == Called /\ ~NoHeaderPresent /\ ~AllHeadersPresent
StStale ==
    /\ Called /\ AllHeadersPresent /\ checkedAt # <<>>
    /\ (IsNaN(ClaimedTimestamp)
            \/ Abs(checkedAt[1] - ClaimedTimestamp.n) > TIMESTAMP_WINDOW_SECONDS)
StRevoked ==
    /\ Answered /\ keysRes.status = 403
    /\ keysRes.body.parse = "object"
    /\ "revoked" \in DOMAIN keysRes.body.fields /\ keysRes.body.fields.revoked
StLookupFailed ==
    \/ keysRes = NetworkError
    \/ Answered /\ keysRes.status \notin 200..299 /\ ~StRevoked
    \/ Answered /\ keysRes.body.parse = "error"
SignatureChecks == EventsOf({"verifySignature"})
StSignatureInvalid == \E i \in SignatureChecks : ~trace[i].result
StVerified == \E i \in SignatureChecks : trace[i].result

---------------------------------------------------------------------------
C2_RequestBinding ==
    (signed # None /\ Called) =>
        ((OwnMethod # signed.method \/ OwnPath # signed.path) =>
            \A b \in BotIDValues : ~IsVerified(b))

\* a signature made for another method and path, presented with the bot id and
\* timestamp it was made for and checked under the signer's key, is refused
C2_Witness ==
    /\ Done /\ signed # None
    /\ OwnMethod # signed.method /\ OwnPath # signed.path
    /\ AllHeadersPresent
    /\ ClaimedBotId = signed.botId
    /\ ClaimedTimestamp = Num(signed.timestamp)
    /\ Answered /\ keysRes.status = 200 /\ keysRes.body = Obj([publicKey |-> PublicKeyHex(signed.key)])
    /\ StSignatureInvalid
    /\ ~IsVerified(req.BotID)

(* C3: signer/verifier agreement.  A request signed by BotIDClient.fetch and  *)
(* delivered unmodified within the 300-second window, with the registry       *)
(* returning the client's public key, ends Verified: the message the verifier *)
(* builds is the message the signer signed.                                   *)
C3_SignerVerifierAgree ==
    (/\ Done /\ wire # None
     /\ Abs(checkedAt[1] - signed.timestamp) <= 300
     /\ Answered /\ keysRes.status = 200
     /\ keysRes.body = Obj([publicKey |-> PublicKeyHex(ClientKey)]))
        =>
        /\ SignatureChecks # {}
        /\ \A i \in SignatureChecks :
              /\ trace[i].result
              /\ trace[i].message =
                    ClientMessage(Num(signed.timestamp), signed.botId, signed.method,
                                  signed.path)
        /\ \E i \in EventsOf({"next"}) :
              /\ IsVerified(trace[i].BotID)
              /\ \A j \in HandOvers : i <= j

\* the client's lower-case PATCH to a URL with a query, arriving exactly 300
\* seconds after it was signed, is verified
C3_Witness ==
    /\ Done /\ wire # None
    /\ wire.method = <<"p", "a", "t", "c", "h">>
    /\ wire.target = <<"/", "a", "?", "q">>
    /\ checkedAt = <<signed.timestamp + 300>>
    /\ StVerified
    /\ IsVerified(req.BotID)

(* C4: on every path, in every terminal state and in both modes, req.BotID   *)
(* is set before the middleware calls next, emits a rejection response or    *)
(* invokes the onUnverified handler.                                         *)
C4_ResultAttachedBeforeHandOver ==
    \A i \in HandOvers : trace[i].BotID # Undefined

(* C5: every invocation resolves to exactly one outcome: next is called, or  *)
(* a terminal rejection is produced (a default response or the onUnverified  *)
(* handler), never both and never neither.                                   *)
C5_ExactlyOneOutcome ==
    Done =>
        ((EventsOf({"next"}) # {}) # (EventsOf({"status", "json", "onUnverified"}) # {}))

C7_Rejected(code, body) ==
    /\ EventsOf({"next", "onUnverified"}) = {}
    /\ \E i \in 1..(Len(trace) - 1) :
          /\ EventsOf({"status"}) = {i}
          /\ EventsOf({"json"}) = {i + 1}
          /\ trace[i].code = code
          /\ trace[i + 1].body \in body

(* C7: with requireVerified true and no onUnverified handler each            *)
(* non-Verified terminal state produces its default rejection and next is    *)
(* not called: 403 "BotID verification required", 400 "Incomplete BotID      *)
(* headers", 403 "Timestamp outside valid window", 403 with revoked: true,  *)
(* 403 "Bot identity verification failed", 503.                              *)
C7_DefaultRejections ==
    (Done /\ opts.requireVerified /\ ~opts.onUnverified) =>
        /\ StNoIdentity => C7_Rejected(403, {[error |-> "BotID verification required"]})
        /\ StIncomplete => C7_Rejected(400, {[error |-> "Incomplete BotID headers"]})
        /\ StStale => C7_Rejected(403, {[error |-> "Timestamp outside valid window"]})
        /\ StRevoked =>
              C7_Rejected(403, {[revoked |-> TRUE, error |-> e] :
                                    e \in {"Bot identity has been revoked"}})
        /\ (StSignatureInvalid /\ ~StVerified) =>
              C7_Rejected(403, {[error |-> "Bot identity verification failed"]})
        /\ StLookupFailed =>
              \E i \in EventsOf({"status"}) :
                  trace[i].code = 503 /\ EventsOf({"next", "onUnverified"}) = {}

\* an incomplete request is answered 400 in strict mode
C7_Witness ==
    /\ Done /\ opts.requireVerified /\ ~opts.onUnverified
    /\ StIncomplete
    /\ \E i \in EventsOf({"status"}) : trace[i].code = 400

(* C8: with requireVerified true and an onUnverified handler, in every       *)
(* non-Verified terminal state the handler is invoked, the middleware emits  *)
(* no default rejection and does not call next; the handler is never invoked *)
(* in the Verified state or when requireVerified is false.                   *)
C8_HandlerOwnsRejection ==
    /\ (Done /\ opts.requireVerified /\ opts.onUnverified /\ ~StVerified) =>
          /\ EventsOf({"onUnverified"}) # {}
          /\ EventsOf({"status", "json", "next"}) = {}
    /\ (StVerified \/ (Called /\ ~opts.requireVerified)) => EventsOf({"onUnverified"}) = {}

\* at the first hand-over req.BotID is the revoked result, no signature was
\* checked, and passive mode calls next
C9_RevokedBotID ==
    /\ HandOvers # {}
    /\ LET b == trace[FirstOfEvents(HandOvers)].BotID
       IN  /\ b # Undefined
           /\ ~b.verified
           /\ "revoked" \in DOMAIN b /\ b.revoked
    /\ SignatureChecks = {}
    /\ ~opts.requireVerified => EventsOf({"next"}) # {}

C9_Answered403 ==
    /\ EventsOf({"next"}) = {}
    /\ \E i \in EventsOf({"status"}) : trace[i].code = 403
    /\ \E i \in EventsOf({"json"}) :
          "revoked" \in DOMAIN trace[i].body /\ trace[i].body.revoked

C10_LookupFailureUnavailable ==
    (Done /\ StLookupFailed) =>
        /\ DOMAIN req.BotID = {"verified", "timestamp", "error"}
        /\ ~req.BotID.verified
        /\ req.BotID.error = "Verification service unavailable"
        /\ \A i \in HandOvers : trace[i].BotID = req.BotID
        /\ SignatureChecks = {}
        /\ (opts.requireVerified /\ ~opts.onUnverified) =>
              /\ EventsOf({"next"}) = {}
              /\ \E i \in EventsOf({"status"}) : trace[i].code = 503

\* a 403 without revoked flag is answered 503 in strict mode
C10_Witness ==
    /\ Done /\ opts.requireVerified /\ ~opts.onUnverified
    /\ Answered /\ keysRes.status = 403 /\ keysRes.body = Obj([revoked |-> FALSE])
    /\ \E i \in EventsOf({"status"}) : trace[i].code = 503

(* C11: replay window.  isTimestampValid(t) is true exactly when              *)
(* |now - t| <= 300 seconds: true at offsets -300 through +300, false at      *)
(* -301 and +301; and the middleware classifies a request with all three      *)
(* headers as StaleTimestamp exactly when isTimestampValid is false.          *)
C11_ReplayWindow ==
    /\ \A d \in -301..301 :
          isTimestampValid(Num(now + d), now) <=> (-300 <= d /\ d <= 300)
    /\ ~isTimestampValid(NaN, now)
    /\ (checkedAt # <<>> /\ AllHeadersPresent) =>
          LET within == /\ ~IsNaN(ClaimedTimestamp)
                        /\ -300 <= checkedAt[1] - ClaimedTimestamp.n
                        /\ checkedAt[1] - ClaimedTimestamp.n <= 300
              stale == \E i \in HandOvers :
                          /\ "error" \in DOMAIN trace[i].BotID
                          /\ trace[i].BotID.error = "Timestamp outside valid window"
          IN  /\ within <=> EventsOf({"fetch"}) # {}
              /\ ~within <=> stale
              /\ (stale /\ opts.requireVerified /\ ~opts.onUnverified) =>
                    \E i \in EventsOf({"status"}) : trace[i].code = 403

\* a timestamp exactly 300 seconds ahead of the clock passes the window and the
\* key lookup is issued
C11_Witness ==
    /\ checkedAt # <<>> /\ AllHeadersPresent
    /\ ClaimedTimestamp = Num(checkedAt[1] + 300)
    /\ EventsOf({"fetch"}) # {}

(* C12: the message covered by X-BotID-Signature is "{timestamp}.{botId}":    *)
(* the signature BotIDClient.fetch puts on a request verifies against         *)
(* "{timestamp}.{botId}" under the client's public key, and the middleware    *)
(* accepts (verified=true, next called, bot.id = claimed id) a request with   *)
(* a current timestamp whose signature was computed over                      *)
(* "{timestamp}.{botId}" with the key the registry returns.                   *)
C12_SignatureCoversTimestampAndBotId ==
    /\ (wire # None) =>
          verifySignature(TestMessage(Num(signed.timestamp), ClientBotId),
                          wire.headers[LowerName(HEADER_SIGNATURE)].v,
                          Str(PublicKeyHex(ClientKey)))
    /\ (/\ Done /\ AllHeadersPresent /\ ~StStale
        /\ Answered /\ keysRes.status = 200
        /\ \E k \in Keys :
              /\ keysRes.body = Obj([publicKey |-> PublicKeyHex(k)])
              /\ PresentedSignature =
                    signMessage(TestMessage(ClaimedTimestamp, ClaimedBotId),
                                PrivateKeyHex(k)))
        =>
        \E i \in EventsOf({"next"}) :
            /\ IsVerified(trace[i].BotID)
            /\ trace[i].BotID.bot.id = ClaimedBotId
            /\ \A j \in HandOvers : i <= j

---------------------------------------------------------------------------
(* Vocabulary of the device flow properties *)

LDone == lpc = "done"

LResolved == LDone /\ lresult.state = "resolved"

LRejected == LDone /\ lresult.state = "rejected"

LEventsOf(ops) == {i \in 1..Len(ltrace) : ltrace[i].op \in ops}

\* the poll requests sent, the timers set, the prompts reported
PollsSent == {i \in LEventsOf({"fetch"}) : "deviceCode" \in DOMAIN ltrace[i]}
Sleeps == LEventsOf({"setTimeout"})
Prompts == LEventsOf({"onPrompt"})

\* the device code request succeeded: the flow holds a device code response
HasCode == flow # None /\ flow.codeResponse # None

\* polling has begun: the start time of line 82 has been taken
PollingBegun == HasCode /\ browser # "none"

Elapsed == lclock - flow.startTime

\* the registry URL given to deviceLogin, or the default
GivenUrl == IF flow.options.apiUrl = Undefined THEN DEFAULT_API_URL ELSE flow.options.apiUrl.v

\* u is the given registry URL without its trailing slashes
IsNormalizedGivenUrl(u) ==
    /\ Len(u) <= Len(GivenUrl)
    /\ u = SubSeq(GivenUrl, 1, Len(u))
    /\ \A i \in (Len(u) + 1)..Len(GivenUrl) : GivenUrl[i] = "/"
    /\ (u # <<>> => u[Len(u)] # "/")

\* the last poll was answered with a body the flow could read
PollAnswered ==
    /\ "status" \in DOMAIN lastPoll
    /\ lastPoll.status \in (200..299) \cup {202}
    /\ lastPoll.body.parse = "object"

PollStatusIs(s) == PollAnswered /\ Field(lastPoll.body, "status") = Str(s)

PollCarriesToken ==
    /\ PollAnswered
    /\ Field(lastPoll.body, "accessToken") # Undefined
    /\ Field(lastPoll.body, "accessToken").v # <<>>

(* C13: deviceLogin resolves with a token only if a poll response had status  *)
(* complete and carried an access token; the returned token is that           *)
(* response's token, the auth session {accessToken = that token, registryUrl  *)
(* = the normalized registry URL of this flow, authenticatedAt = now} is      *)
(* persisted before the token is returned, and polling stops there.           *)
C13_TokenOnlyFromCompletePoll ==
    (lpc # "idle" /\ lresult.state = "resolved") =>
        /\ PollStatusIs("complete") /\ PollCarriesToken
        /\ lresult.token = Field(lastPoll.body, "accessToken")
        /\ IsNormalizedGivenUrl(flow.apiUrl)
        /\ authFile = JsonFile(Session(lresult.token.v, flow.apiUrl, ToISOString(lclock)))
        /\ ltrace[Len(ltrace)].op = "saveAuthSession"
        /\ ltrace[Len(ltrace)].session = authFile.v
        /\ \A i \in PollsSent : i < Len(ltrace)
        /\ LDone
        /\ ~ENABLED LoginNext

\* a flow given a URL with a trailing slash, whose second poll is complete
C13_Witness ==
    /\ LResolved
    /\ flow.options.apiUrl = Str(<<"https://r.example", "/">>)
    /\ Cardinality(PollsSent) = 2
    /\ flow.sessionAtStart # AbsentFile
    /\ authFile # flow.sessionAtStart

(* C14: a poll response with status expired, consumed or error is terminal:   *)
(* the flow rejects (device code expired, device code already used, or the    *)
(* registry-supplied message, a generic one when none is given), issues no    *)
(* further poll, and leaves the stored auth session unchanged; nothing is     *)
(* persisted on any failure path, timeout included.                           *)
C14_TerminalPollFailures ==
    /\ PollStatusIs("expired") =>
          LDone /\ lresult = Rejected(Str("Device code expired. Please try again."))
    /\ PollStatusIs("consumed") =>
          LDone /\ lresult = Rejected(Str("Device code already used. Please try again."))
    /\ PollStatusIs("error") =>
          /\ LDone
          /\ lresult = Rejected(IF "error" \in DOMAIN lastPoll.body.fields
                                THEN lastPoll.body.fields.error
                                ELSE Str("Authentication failed"))
    /\ LRejected =>
          /\ authFile = flow.sessionAtStart
          /\ ~ENABLED LoginNext
    /\ (lpc # "idle" /\ ~LResolved) => authFile = flow.sessionAtStart

\* the second poll is answered consumed while a session of an earlier login is
\* stored
C14_Witness ==
    /\ LRejected
    /\ PollStatusIs("consumed")
    /\ Cardinality(PollsSent) = 2
    /\ flow.sessionAtStart # AbsentFile

(* C15: deviceLogin always terminates: when time advances and every registry  *)
(* request returns, each invocation ends with a token or with an error; if    *)
(* every poll response is pending it rejects with the timeout error once the  *)
(* time elapsed since polling began is >= expiresIn, and with expiresIn = 0   *)
(* it times out without polling.                                              *)
C15_DeviceLoginTerminates ==
    /\ (lpc # "idle") ~> LDone
    /\ [](LDone => lresult.state \in {"resolved", "rejected"})
    /\ [](lpc = "sleeping" => Elapsed < flow.codeResponse.expiresIn * 1000)
    /\ []((LDone /\ lresult = Rejected(TimedOut)) =>
              /\ PollingBegun
              /\ Elapsed >= flow.codeResponse.expiresIn * 1000)
    /\ []((LDone /\ PollingBegun /\ (PollsSent = {} \/ PollStatusIs("pending"))) =>
              lresult = Rejected(TimedOut))
    /\ []((PollingBegun /\ flow.codeResponse.expiresIn = 0) => PollsSent = {})

\* three polls answered pending, then the timeout
C15_Witness ==
    /\ LDone /\ lresult = Rejected(TimedOut)
    /\ Cardinality(PollsSent) = 3
    /\ PollStatusIs("pending")

(* C16: when the device code request succeeds, onPrompt is invoked exactly    *)
(* once, with that response's verificationUrl and userCode, strictly before   *)
(* the first sleep and the first poll request; it is never invoked again      *)
(* during polling, and every poll request is preceded by a sleep of           *)
(* `interval` seconds.                                                        *)
C16_PromptOnceBeforePolling ==
    HasCode =>
        /\ Cardinality(Prompts) = 1
        /\ \A p \in Prompts :
              /\ ltrace[p].verificationUrl = flow.codeResponse.verificationUrl
              /\ ltrace[p].userCode = flow.codeResponse.userCode
              /\ \A i \in Sleeps \cup PollsSent : p < i
        /\ \A i \in PollsSent :
              /\ i - 1 \in Sleeps
              /\ ltrace[i - 1].ms = flow.codeResponse.interval * 1000
              /\ ltrace[i].at >= (IF \E j \in PollsSent : j < i
                                  THEN ltrace[i - 2].at ELSE flow.startTime)
                                 + flow.codeResponse.interval * 1000

\* two polls, each after its own sleep of one second, and one prompt
C16_Witness ==
    /\ HasCode
    /\ flow.codeResponse.interval = 1
    /\ Cardinality(PollsSent) = 2
    /\ Cardinality(Sleeps) = 2
    /\ Cardinality(Prompts) = 1

(* C17: the best-effort browser open never affects the flow: whether opening  *)
(* the verification URL succeeds, fails synchronously or fails later,         *)
(* deviceLogin proceeds to the same poll loop with the same device code and   *)
(* reaches the result the poll responses determine; the optional onOpen       *)
(* callback is invoked only if the open succeeded.                            *)
C17_BrowserOpenBestEffort ==
    /\ PollingBegun =>
          /\ flow.codeResponse.expiresIn > 0 => (Sleeps # {} /\ lpc \in {"sleeping", "awaitPoll", "done"})
          /\ \A i \in PollsSent : ltrace[i].deviceCode = flow.codeResponse.deviceCode
          /\ (LDone /\ (PollsSent = {} \/ PollStatusIs("pending"))) => lresult = Rejected(TimedOut)
    /\ LEventsOf({"onOpen"}) # {} => browser = "opened"

---------------------------------------------------------------------------
(* Vocabulary of the credential store properties *)

\* the file holds nothing or a store: an object whose agents member is an object
IsStore(file) ==
    \/ file = AbsentFile
    \/ /\ file.file = "json"
       /\ Kind(file.v) = "object"
       /\ HasOwn(file.v.ps, "agents")
       /\ Kind(Own(file.v.ps, "agents")) = "object"

\* the records the file holds, by name
AgentsOf(file) == IF file = AbsentFile THEN <<>> ELSE Own(file.v.ps, "agents").ps

StoredUnder(file, name) == IsStore(file) /\ HasOwn(AgentsOf(file), name)

\* undefined (or null, which callers test the same way)
IsAbsent(v) == v = Undefined \/ v = JNull

(* C18: credential store round-trip.  After saveCredentials(r),               *)
(* getCredentials(r.name) returns a record equal to r, a later save under the *)
(* same name replacing it wholesale, until that name is removed or saved      *)
(* again.  Stated here for a credentials file that was a store (or absent)    *)
(* before the call.                                                           *)
C18_SaveGetRoundTrip ==
    (/\ call.op = "getCredentials"
     /\ IsStore(call.before)
     /\ lastSaved[call.name] # Undefined)
        => (~call.threw /\ call.value = lastSaved[call.name])

(* C19: removeCredentials(name) returns false and performs no write when no   *)
(* record is stored under name; it returns true when one is stored, after     *)
(* which getCredentials(name) is absent and listAgents() no longer contains   *)
(* name.  Stated here for a credentials file that was a store (or absent)     *)
(* before the call, and for a write that succeeds.                            *)
C19_RemoveCredentials ==
    (call.op = "removeCredentials" /\ IsStore(call.before)) =>
        IF ~StoredUnder(call.before, call.name)
        THEN /\ ~call.threw
             /\ call.value = JBool(FALSE)
             /\ ~call.wrote
             /\ credentialsFile = call.before
        ELSE ~call.threw =>
             /\ call.value = JBool(TRUE)
             /\ IsAbsent(getCredentials(credentialsFile, call.name).value)
             /\ \A i \in 1..Len(listAgents(credentialsFile).value.es) :
                    listAgents(credentialsFile).value.es[i] # JStr(call.name)

(* C20: corrupted or unreadable backing storage never raises from the         *)
(* credential store: for any content of the credentials file getCredentials   *)
(* returns absent and listAgents the empty set rather than throwing, and for   *)
(* any content of the session file getAuthSession returns absent rather than  *)
(* throwing (a store or session that is held is returned as it is).  Stated   *)
(* here for names that are not members of Object.prototype.                   *)
C20_CorruptStorageNeverRaises ==
    /\ (call.op = "getCredentials" /\ call.name \notin ObjectPrototypeNames) =>
          /\ ~call.threw
          /\ ~IsStore(call.before) => IsAbsent(call.value)
    /\ call.op = "listAgents" =>
          /\ ~call.threw
          /\ ~IsStore(call.before) => call.value = JArr(<<>>)
    /\ call.op = "getAuthSession" =>
          /\ ~call.threw
          /\ call.before \notin {JsonFile(x) : x \in SessionInputs} => IsAbsent(call.value)

---------------------------------------------------------------------------
(* C26: fail-closed verification.  verifySignature returns and never raises; *)
(* when the lookup was answered with a success status and the key in the     *)
(* body or the presented signature is garbage, the invocation ends not       *)
(* verified: a signature check that was made returned false, req.BotID is    *)
(* never a verified result, and the promise is rejected only when next or    *)
(* the onUnverified handler threw.                                           *)
GarbageKey ==
    \/ keysRes.body.parse # "object"
    \/ "publicKey" \notin DOMAIN keysRes.body.fields
    \/ keysRes.body.fields.publicKey \notin {PublicKeyHex(k) : k \in Keys}

GarbageSignature == PresentedSignature = <<>> \/ PresentedSignature[1] # "#ed25519"

CalleeThrew == \E i \in EventsOf({"next", "onUnverified"}) : trace[i].threw

C26_FailClosed ==
    (Done /\ Answered /\ Ok(keysRes.status) /\ (GarbageKey \/ GarbageSignature)) =>
        /\ ~StVerified
        /\ \A b \in BotIDValues : b # Undefined => ~IsVerified(b)
        /\ keysRes.body.parse = "object" => StSignatureInvalid
        /\ promise = "rejected" => CalleeThrew

C26_Witness ==
    /\ Done /\ Answered /\ Ok(keysRes.status)
    /\ keysRes.body.parse = "object" /\ GarbageKey /\ ~GarbageSignature
    /\ StSignatureInvalid /\ promise = "fulfilled"

---------------------------------------------------------------------------
(* C27: the steps of one invocation run in order and nothing is started      *)
(* speculatively.  No registry lookup is issued in an invocation that ends   *)
(* NoIdentityPresented, IncompleteHeaders or StaleTimestamp; at most one     *)
(* lookup is issued; a lookup is issued only after the headers and the       *)
(* window were checked; and the signature is checked only after that lookup  *)
(* was answered with a success status (hence not a revocation).              *)
Lookups == EventsOf({"fetch"})

C27_StepsInOrder ==
    /\ (StNoIdentity \/ StIncomplete \/ StStale) => Lookups = {}
    /\ Cardinality(Lookups) <= 1
    /\ Lookups # {} => AllHeadersPresent /\ checkedAt # <<>> /\ ~StStale
    /\ Answered => Lookups # {}
    /\ \A i \in SignatureChecks :
            /\ Answered /\ Ok(keysRes.status) /\ ~StRevoked
            /\ \E j \in Lookups : j < i
    /\ Cardinality(SignatureChecks) <= 1

C27_Witness ==
    Done /\ StVerified /\ Cardinality(Lookups) = 1 /\ Cardinality(SignatureChecks) = 1

---------------------------------------------------------------------------
(* C29: pollDeviceAuth hands the body to deviceLogin for a success status    *)
(* and for 202, and throws "Device poll failed (<status>)" for every other   *)
(* status.  That throw, or a network failure of a poll, ends the flow at     *)
(* once with that error: the poll is the last thing the flow did, no further *)
(* poll or timer follows, and the session file is as it was.                 *)
PollFailed ==
    \/ lastPoll = NetworkError
    \/ "status" \in DOMAIN lastPoll /\ lastPoll.status \notin (200..299) \cup {202}

PollError ==
    IF lastPoll = NetworkError THEN Str("fetch failed")
    ELSE [message |-> "Device poll failed", status |-> lastPoll.status]

C29_PollFailureEndsFlow ==
    /\ PollFailed =>
            /\ LRejected /\ lresult = Rejected(PollError)
            /\ ltrace[Len(ltrace)].op = "fetch" /\ Len(ltrace) \in PollsSent
            /\ LEventsOf({"saveAuthSession"}) = {}
            /\ authFile = flow.sessionAtStart
            /\ ~ENABLED LoginNext
    /\ (PollAnswered /\ LRejected) =>
            /\ lresult.message # [message |-> "Device poll failed", status |-> lastPoll.status]
            /\ lresult.message \in {TerminalError(lastPoll.body), TimedOut, Str("write failed")}

C29_Witness ==
    /\ PollFailed /\ "status" \in DOMAIN lastPoll /\ lastPoll.status = 500
    /\ Cardinality(PollsSent) = 2 /\ LRejected

---------------------------------------------------------------------------
(* C21: uncoordinated writers, last writer wins.  With the read and the      *)
(* write of two saveCredentials / removeCredentials calls interleaved, the   *)
(* file holds exactly what the last write wrote, which is the last writer's  *)
(* change applied to the map as it was when that writer read it; a change    *)
(* the other process wrote between that read and that write is not in the    *)
(* file, so the file merges both changes only when the last writer read      *)
(* after the other's write.                                                  *)
RaceWrites == {i \in 1..Len(race.log) : race.log[i].step = "write"}

\* the file as it was just before step i of the log
FileAt(i) ==
    LET earlier == {j \in RaceWrites : j < i}
    IN  IF earlier = {} THEN race.initial
        ELSE race.log[CHOOSE j \in earlier : \A k \in earlier : k <= j].file

\* the read step of process p
ReadOf(p) == CHOOSE i \in 1..Len(race.log) : race.log[i].p = p /\ race.log[i].step = "read"

\* the file shows the change call c asked for
ShowsChange(file, c) ==
    IF c.op = "save"
    THEN StoredUnder(file, c.name) /\ Own(AgentsOf(file), c.name) = c.creds
    ELSE IsStore(file) /\ ~StoredUnder(file, c.name)

C21_LastWriterWins ==
    race # None =>
        /\ credentialsFile = FileAt(Len(race.log) + 1)
        /\ \A i \in RaceWrites :
               LET p == race.log[i].p
                   c == race.w[p].c
                   read == FileAt(ReadOf(p))
               IN  /\ race.log[i].file =
                         (IF c.op = "save" THEN saveCredentials(read, c.creds, TRUE)
                          ELSE removeCredentials(read, c.name, TRUE)).file
                   /\ ShowsChange(race.log[i].file, c)
                   /\ \A j \in RaceWrites :
                          LET q == race.log[j].p
                              d == race.w[q].c
                          IN  (ReadOf(p) < j /\ j < i /\ d.name # c.name
                                   /\ ~ShowsChange(read, d))
                                  => ~ShowsChange(race.log[i].file, d)

C21_Witness ==
    /\ race # None
    /\ \A p \in {1, 2} : race.w[p].pc = "done"
    /\ Cardinality(RaceWrites) = 2
    /\ race.w[1].c.op = "save" /\ race.w[2].c.op = "save"
    /\ race.w[1].c.name # race.w[2].c.name
    /\ ReadOf(1) < ReadOf(2) /\ race.log[3].p = 2 /\ race.log[4].p = 1
    /\ ShowsChange(credentialsFile, race.w[1].c)
    /\ ~ShowsChange(credentialsFile, race.w[2].c)

---------------------------------------------------------------------------
(* Vocabulary of the init and client properties *)

IDone == ipc = "done"
IResolved == IDone /\ iresult.state = "resolved"
IRejected == IDone /\ iresult.state = "rejected"

IEventsOf(ops) == {i \in 1..Len(itrace) : itrace[i].op \in ops}

\* requests init and the client handed to fetch()
Registrations == IEventsOf({"register"})
ClientFetches == {i \in IEventsOf({"clientFetch"}) : ~itrace[i].threw}
Verifies == {i \in IEventsOf({"verify"}) : ~itrace[i].threw}

\* the record stored under init's name when init was called, if there is one
StoredAtStart == StoredUnder(icall.storeAtStart, icall.options.name)
RecordAtStart == Own(AgentsOf(icall.storeAtStart), icall.options.name)

\* nothing is found under init's name: init takes the registration path
NewRegistration ==
    /\ icall # None
    /\ ~getCredentials(icall.storeAtStart, icall.options.name).threw
    /\ IsAbsent(getCredentials(icall.storeAtStart, icall.options.name).value)

\* the token of the stored session, when auth.json holds one
StoredToken ==
    IF authFile.file = "json" /\ Kind(authFile.v) = "object"
          /\ HasOwn(authFile.v.ps, "accessToken")
    THEN Str(Own(authFile.v.ps, "accessToken").s)
    ELSE Undefined

\* the first defined of options.accessToken, BOTID_TOKEN and the stored token
FirstDefinedToken ==
    IF icall.options.accessToken # Undefined THEN icall.options.accessToken
    ELSE IF icall.env # Undefined THEN icall.env
    ELSE StoredToken

HoldsPrivateKey(str) == \E i \in 1..Len(str) : str[i] = "#pkcs8"

---------------------------------------------------------------------------
(* C22: the private key never leaves the machine.  No request sent by init,  *)
(* by BotIDClient.fetch, by BotIDClient.verify or by the device flow holds   *)
(* the private key in its URL, its headers or its body; the registration     *)
(* request carries the public key of the generated pair.                     *)
C22_PrivateKeyStaysLocal ==
    /\ \A i \in Registrations :
           /\ ~HoldsPrivateKey(itrace[i].url)
           /\ ~HoldsPrivateKey(itrace[i].headers.ContentType)
           /\ ~HoldsPrivateKey(itrace[i].headers.Authorization)
           /\ ~HoldsPrivateKey(itrace[i].body.publicKey)
           /\ itrace[i].body.publicKey = PublicKeyHex(ilocal.key)
           /\ DOMAIN itrace[i].body = {"name", "publicKey"}
    /\ \A i \in ClientFetches :
           /\ ~HoldsPrivateKey(itrace[i].passed.url)
           /\ \A h \in DOMAIN itrace[i].passed.headers :
                  ~HoldsPrivateKey(itrace[i].passed.headers[h].v)
           /\ itrace[i].passed.body = itrace[i].init.body
    /\ \A i \in Verifies :
           /\ ~HoldsPrivateKey(itrace[i].url)
           /\ ~HoldsPrivateKey(itrace[i].headers.ContentType)
           /\ ~HoldsPrivateKey(itrace[i].body.botId)
           /\ ~HoldsPrivateKey(itrace[i].body.signature)
           /\ ~HoldsPrivateKey(itrace[i].body.path)
           /\ DOMAIN itrace[i].body = {"botId", "signature", "timestamp", "method", "path"}
    /\ \A i \in LEventsOf({"fetch"}) :
           /\ ~HoldsPrivateKey(ltrace[i].url)
           /\ DOMAIN ltrace[i] \subseteq {"op", "url", "deviceCode", "at"}

C22_Witness ==
    /\ LResolved /\ IResolved
    /\ Registrations # {} /\ Verifies # {}
    /\ HoldsPrivateKey(iresult.client.privateKey.v)

---------------------------------------------------------------------------
(* C23: when credentials are stored under options.name, init resolves with   *)
(* a client built from the stored botId, privateKey and registry URL and     *)
(* does nothing else: it sends no request, generates no key pair, reads no   *)
(* token and leaves the credentials file as it was.                          *)
C23_ExistingCredentials ==
    (icall # None /\ StoredAtStart /\ Kind(RecordAtStart) = "object") =>
        /\ IResolved
        /\ iresult.client.botId = Str(Own(RecordAtStart.ps, "botId").s)
        /\ iresult.client.privateKey = Str(Own(RecordAtStart.ps, "privateKey").s)
        /\ iresult.client.apiUrl
               = StripTrailingSlashes(Own(RecordAtStart.ps, "apiUrl").s)
        /\ IEventsOf({"register", "generateKeypair", "getAuthSession",
                      "saveCredentials"}) = {}
        /\ credentialsFile = icall.storeAtStart

C23_Witness ==
    /\ icall # None /\ StoredAtStart /\ IResolved
    /\ icall.options.accessToken = Undefined /\ icall.env = Undefined
    /\ authFile = AbsentFile
    /\ icall.options.apiUrl # Undefined
    /\ ClientFetches # {}

---------------------------------------------------------------------------
(* C24: for a new registration the bearer token is the first defined of      *)
(* options.accessToken, BOTID_TOKEN and the stored session's token.  When    *)
(* that yields no token, init rejects with "Authentication required", sends  *)
(* no request and saves nothing; otherwise the registration request carries  *)
(* that token.                                                               *)
C24_TokenResolution ==
    NewRegistration =>
        IF Falsy(FirstDefinedToken)
        THEN /\ IRejected /\ iresult = Rejected(Str("Authentication required"))
             /\ IEventsOf({"register", "generateKeypair", "saveCredentials"}) = {}
             /\ credentialsFile = icall.storeAtStart
        ELSE /\ Cardinality(Registrations) = 1
             /\ \A i \in Registrations :
                    itrace[i].headers.Authorization
                        = <<"Bearer", " ">> \o FirstDefinedToken.v
             /\ iresult # Rejected(Str("Authentication required"))

C24_Witness ==
    /\ NewRegistration /\ LResolved
    /\ icall.options.accessToken = Undefined /\ icall.env = Undefined
    /\ \E i \in Registrations :
           itrace[i].headers.Authorization = <<"Bearer", " ", "t", "1">>

---------------------------------------------------------------------------
(* C25: BotIDClient.fetch always writes X-BotID, X-BotID-Signature and       *)
(* X-BotID-Timestamp with its own values, over headers the caller supplied   *)
(* under the same names in any case; every other header of the caller and    *)
(* the url, method and body are handed on unchanged; the timestamp header is *)
(* the whole-second timestamp at the head of the signed message.             *)
C25_IdentityHeadersRewritten ==
    \A i \in ClientFetches :
        LET e == itrace[i]
            h == e.passed.headers
            ts == NatToString(e.at)
            sig == h["x-botid-signature"].v
            own == iresult.client
        IN  /\ h["x-botid"] = Str(own.botId.v)
            /\ h["x-botid-timestamp"] = Str(ts)
            /\ sig[1] = "#ed25519" /\ <<"#pkcs8", sig[2]>> = own.privateKey.v
            /\ SubSeq(sig, 3, Len(ts) + 3) = ts \o <<".">>
            /\ DOMAIN h = HeaderNames
                   \cup {LowerName(e.init.headers[j][1]) : j \in 1..Len(e.init.headers)}
            /\ \A j \in 1..Len(e.init.headers) :
                   LowerName(e.init.headers[j][1]) \notin HeaderNames
                       => h[LowerName(e.init.headers[j][1])] = e.init.headers[j][2]
            /\ e.passed.url = e.url
            /\ e.passed.method = e.init.method
            /\ e.passed.body = e.init.body

C25_Witness ==
    \E i \in ClientFetches :
        /\ itrace[i].init.headers = <<<<"Accept", Str(<<"j">>)>>, <<"X-BOTID", Str(B2)>>>>
        /\ iresult.client.botId = Str(B1)
        /\ itrace[i].passed.headers["x-botid"] = Str(B1)
        /\ itrace[i].passed.headers["accept"] = Str(<<"j">>)
        /\ itrace[i].passed.body = Str(<<"x">>)

---------------------------------------------------------------------------
(* C30: a failed registration leaves local state unchanged.  When the        *)
(* registry answers with a non-success status, with success false or without *)
(* a botId, init rejects, saveCredentials is not called, the credentials     *)
(* file is as it was and getCredentials(options.name) is still absent; the   *)
(* error for a non-success status holds the status code and nothing of the   *)
(* response body.                                                            *)
RegistrationRefused ==
    /\ ilocal # None /\ ilocal.res # None /\ ilocal.res # NetworkError
    /\ \/ ilocal.res.status \notin 200..299
       \/ /\ ilocal.res.body.parse = "object"
          /\ \/ "success" \notin DOMAIN ilocal.res.body.fields
             \/ ~ilocal.res.body.fields.success
             \/ "botId" \notin DOMAIN ilocal.res.body.fields
             \/ ilocal.res.body.fields.botId = Str(<<>>)

C30_FailedRegistration ==
    RegistrationRefused =>
        /\ IRejected
        /\ IEventsOf({"saveCredentials"}) = {}
        /\ credentialsFile = icall.storeAtStart
        /\ ~getCredentials(credentialsFile, icall.options.name).threw
        /\ IsAbsent(getCredentials(credentialsFile, icall.options.name).value)
        /\ ilocal.res.status \notin 200..299 =>
               iresult.message = [message |-> "BotID registration failed (HTTP",
                                  status |-> ilocal.res.status]

C30_Witness ==
    /\ RegistrationRefused /\ IRejected
    /\ ilocal.res.status = 500
    /\ ilocal.res.body = Obj([error |-> Str(<<"t", "a", "k", "e", "n">>)])

---------------------------------------------------------------------------
(* C28: verifiers never cache keys.  Every invocation that passed the header *)
(* and timestamp checks issued one lookup of its own, for the bot id of its  *)
(* own request; the answer it holds is the registry's answer for that bot;   *)
(* and its outcome follows from that answer and its own request alone: not   *)
(* verified on a revoked answer or a failed lookup, and on a key answer      *)
(* verified exactly when its own request was signed for that bot under that  *)
(* key.                                                                      *)
Running ==
    [pc |-> pc, req |-> req, local |-> local, keysRes |-> keysRes, trace |-> trace,
     promise |-> promise, signed |-> signed, checkedAt |-> checkedAt, id |-> 3 - other.id]

Invocations == IF other = None THEN {} ELSE {Running, other}

RevokedAnswer == [body |-> Obj([revoked |-> TRUE]), status |-> 403]

LookupsOf(v) == {i \in 1..Len(v.trace) : v.trace[i].op = "fetch"}

SignedForOwnRequest(v) ==
    /\ v.signed.botId = v.local.botId
    /\ v.signed.key = RegistryKey(v.local.botId)
    /\ Num(v.signed.timestamp) = v.local.timestamp

C28_NoSharedKeys ==
    \A v \in Invocations :
        /\ v.local = None => LookupsOf(v) = {} /\ v.keysRes = None
        /\ v.local # None =>
               /\ Str(v.local.botId) = v.req.headers["x-botid"]
               /\ Cardinality(LookupsOf(v)) = 1
               /\ \A i \in LookupsOf(v) :
                      v.trace[i].url = opts.apiUrl \o <<"/api/keys/">> \o v.local.botId
               /\ v.pc = "awaitFetch" <=> v.keysRes = None
               /\ v.keysRes \notin {None, NetworkError} =>
                      \/ v.keysRes = RevokedAnswer /\ v.local.botId \in registry
                      \/ v.keysRes = [body |-> Obj([publicKey |->
                                          PublicKeyHex(RegistryKey(v.local.botId))]),
                                      status |-> 200]
               /\ v.pc = "done" =>
                      /\ IsVerified(v.req.BotID) <=>
                             (v.keysRes \notin {NetworkError, RevokedAnswer}
                                  /\ SignedForOwnRequest(v))
                      /\ v.keysRes = RevokedAnswer =>
                             ("revoked" \in DOMAIN v.req.BotID /\ v.req.BotID.revoked)

C28_Witness ==
    /\ other # None /\ pc = "done" /\ other.pc = "done"
    /\ local # None /\ other.local # None
    /\ local.botId = B1 /\ other.local.botId = B1
    /\ SignedForOwnRequest(Running) /\ SignedForOwnRequest(other)
    /\ IsVerified(other.req.BotID)
    /\ keysRes = RevokedAnswer /\ ~IsVerified(req.BotID)

---------------------------------------------------------------------------
(* C34: within one invocation next is called at most once, the onUnverified  *)
(* handler is invoked at most once, and req.BotID, once set, is not          *)
(* overwritten by a different outcome, also when next or the handler raises. *)
C34_OneHandOverOneOutcome ==
    /\ Cardinality(EventsOf({"next"})) <= 1
    /\ Cardinality(EventsOf({"onUnverified"})) <= 1
    /\ Cardinality(BotIDValues \ {Undefined}) <= 1

---------------------------------------------------------------------------
(* C35: the middleware reports an invalid signature (verified = false with   *)
(* no error) only after a lookup that returned a success status and a body   *)
(* holding a public key; a success response from which no public key can be  *)
(* obtained ends as a lookup failure, "Verification service unavailable".    *)
SuccessAnswer == keysRes \notin {None, NetworkError} /\ Ok(keysRes.status)

HoldsPublicKey ==
    /\ keysRes.body.parse = "object"
    /\ "publicKey" \in DOMAIN keysRes.body.fields

ReportedInvalid ==
    \E i \in 1..Len(trace) :
        /\ trace[i].op \in {"next", "status", "json", "onUnverified"}
        /\ trace[i].BotID # Undefined
        /\ DOMAIN trace[i].BotID = {"verified", "timestamp"}
        /\ ~trace[i].BotID.verified
        /\ EventsOf({"verifySignature"}) # {}

C35_InvalidOnlyUnderAKey ==
    /\ ReportedInvalid => SuccessAnswer /\ HoldsPublicKey
    /\ (Done /\ SuccessAnswer /\ ~HoldsPublicKey) =>
           /\ "error" \in DOMAIN req.BotID
           /\ req.BotID.error = "Verification service unavailable"

---------------------------------------------------------------------------
(* C36: deviceLogin sends no poll request, saves no session and returns no   *)
(* token at a moment when the time since polling began has reached           *)
(* expiresIn.                                                                *)
C36_NothingAfterExpiry ==
    \A i \in LEventsOf({"fetch", "saveAuthSession"}) :
        "at" \in DOMAIN ltrace[i] =>
            ltrace[i].at - flow.startTime < flow.codeResponse.expiresIn * 1000

---------------------------------------------------------------------------
(* C37: after deviceLogin({apiUrl: u}) resolved with token t, isLoggedIn(u)  *)
(* is true and getAccessToken(u) is t, as are isLoggedIn() and               *)
(* getAccessToken() without a URL; after logout both report no session.      *)
C37_LoginVisibleUnderSameUrl ==
    LResolved =>
        LET u == flow.options.apiUrl
            t == JStr(lresult.token.v)
            loggedOut == clearAuthSession(authFile).file
        IN  /\ isLoggedIn(authFile, u)
            /\ getAccessToken(authFile, u) = t
            /\ isLoggedIn(authFile, Undefined)
            /\ getAccessToken(authFile, Undefined) = t
            /\ ~isLoggedIn(loggedOut, u) /\ ~isLoggedIn(loggedOut, Undefined)
            /\ getAccessToken(loggedOut, u) = Undefined
            /\ getAccessToken(loggedOut, Undefined) = Undefined

---------------------------------------------------------------------------
(* C32: with a credentials file that holds a store (or does not exist yet),  *)
(* saveCredentials(r) and removeCredentials(n) leave what getCredentials     *)
(* returns for every other name as it was and do not touch the session file; *)
(* saveAuthSession and clearAuthSession do not touch the credentials file;   *)
(* and after every call listAgents() is exactly the set of names under which *)
(* getCredentials returns a record.                                          *)
RecordOf(file, n) == getCredentials(file, n).value

ListedNames(file) ==
    {listAgents(file).value.es[i].s : i \in 1..Len(listAgents(file).value.es)}

\* what the file itself holds under a name
StoredRecord(file, n) ==
    IF StoredUnder(file, n) THEN Own(AgentsOf(file), n) ELSE Undefined

---------------------------------------------------------------------------
(* C38: a credential-store write never drops another agent's record because *)
(* of a failed read: every record the credentials file held under another   *)
(* name before saveCredentials(r) or removeCredentials(n) is still held,     *)
(* unchanged, after it, also when the read made by that call fails.          *)
HeldAgents(file) ==
    IF /\ "v" \in DOMAIN file
       /\ Kind(file.v) = "object"
       /\ HasOwn(file.v.ps, "agents")
       /\ Kind(Own(file.v.ps, "agents")) = "object"
    THEN Own(file.v.ps, "agents").ps
    ELSE <<>>

C38_FailedReadDropsNothing ==
    call.op \in {"saveCredentials", "removeCredentials"} =>
        \A n \in Names \ {call.name} :
            HasOwn(HeldAgents(call.before), n) =>
                /\ HasOwn(HeldAgents(credentialsFile), n)
                /\ Own(HeldAgents(credentialsFile), n) = Own(HeldAgents(call.before), n)

---------------------------------------------------------------------------
(* Access tokens and the registry that issued them *)

\* the registry URL recorded in the stored session, when auth.json holds one
StoredSessionUrl ==
    IF authFile.file = "json" /\ Kind(authFile.v) = "object"
          /\ HasOwn(authFile.v.ps, "apiUrl")
    THEN Str(Own(authFile.v.ps, "apiUrl").s)
    ELSE Undefined

\* init took its token from the stored session: neither options.accessToken
\* nor BOTID_TOKEN is defined and the session holds a token
TokenFromSession ==
    /\ icall # None
    /\ icall.options.accessToken = Undefined
    /\ icall.env = Undefined
    /\ StoredToken # Undefined

\* C40: a token stored by a login against registry URL A is sent as a bearer
\* credential only to A: every registration request that carries the stored
\* session's token goes to the registry URL recorded in that session.
C40_TokenConfinedToIssuer ==
    TokenFromSession =>
        \A i \in Registrations :
            /\ StoredSessionUrl # Undefined
            /\ itrace[i].url = StoredSessionUrl.v \o <<"/api/register">>


---------------------------------------------------------------------------
(* The health check: BotIDClient.verify *)

VerifyPath == <<"/", "a", "p", "i", "/", "v", "e", "r", "i", "f", "y">>

\* `{timestamp}.{botId}.{METHOD}.{path}` written out for the values of a
\* posted verify body
MessageOfBody(b) ==
    NatToString(b.timestamp.n) \o <<".">> \o b.botId \o <<".">> \o b.method
        \o <<".">> \o b.path

\* the body posted by verify carries the values of the message it signed,
\* the message is for POST /api/verify, and the call returns the payload of
\* the answer whatever its status
VerifyBodyAndResult(e) ==
    /\ e.body.botId = iresult.client.botId.v
    /\ e.body.timestamp = Num(now)
    /\ e.body.method = POST /\ e.body.path = VerifyPath
    /\ e.method = POST
    /\ e.body.signature
         = <<"#ed25519", iresult.client.privateKey.v[2]>> \o MessageOfBody(e.body)
    /\ (e.response # NetworkError /\ e.response.body.parse # "error")
          => e.returned = [value |-> e.response.body, state |-> "resolved"]

\* C33 (as stated): verify signs `{timestamp}.{botId}.{METHOD}.{path}` for the
\* method and path of the request it actually posts, the posted body carries
\* the signed values, and the registry's payload is returned.
C33_SignsThePostedRequest ==
    \A i \in Verifies :
        /\ VerifyBodyAndResult(itrace[i])
        /\ itrace[i].body.path = Pathname(itrace[i].url)

\* C33 (amended): verify signs the constant pair POST /api/verify and posts to
\* `${apiUrl}/api/verify`; the posted request's path is the signed path
\* exactly when the registry URL has no path of its own, and is that path
\* prefixed to /api/verify otherwise.  The posted body carries the signed
\* values and the registry's payload is returned whatever the status.
C33_SignsTheConstantPair ==
    \A i \in Verifies :
        /\ VerifyBodyAndResult(itrace[i])
        /\ itrace[i].url = iresult.client.apiUrl \o VerifyPath
        /\ Pathname(itrace[i].url) = Tail(iresult.client.apiUrl) \o VerifyPath

\* a health check of a registry whose URL has no path, answered 403 with a
\* payload, which is returned
C33_Witness ==
    \E i \in Verifies :
        /\ Len(iresult.client.apiUrl) = 1
        /\ itrace[i].response # NetworkError
        /\ itrace[i].response.status = 403
        /\ itrace[i].returned.state = "resolved"
        /\ itrace[i].returned.value = itrace[i].response.body


---------------------------------------------------------------------------
(* Registration and the invocations of init that follow or overlap it *)

\* the two invocations of init, the running one and the one left waiting
Invocation(id) ==
    IF other.id = id THEN other
    ELSE [ipc |-> ipc, icall |-> icall, ilocal |-> ilocal, itrace |-> itrace, iresult |-> iresult,
          id |-> id, peerAtCall |-> other.peerAtCall]

CalledWith(id, n) ==
    Invocation(id).icall # None /\ Invocation(id).icall.options.name = n

Settled(id) == Invocation(id).ipc \in {"idle", "done"}

ResolvedInit(id) ==
    Invocation(id).ipc = "done" /\ Invocation(id).iresult.state = "resolved"

StepsOf(id, op) ==
    {i \in 1..Len(Invocation(id).itrace) : Invocation(id).itrace[i].op = op}

\* the registration requests sent for a name, of both invocations
RegistrationsFor(n) ==
    UNION {{<<id, i>> : i \in StepsOf(id, "register")} :
               id \in {v \in {1, 2} : CalledWith(v, n)}}

\* the client an invocation returned has the botId and key of the record the
\* file holds under the name
ClientMatchesStored(id, n) ==
    /\ StoredUnder(credentialsFile, n)
    /\ LET rec == Own(AgentsOf(credentialsFile), n)
           client == Invocation(id).iresult.client
       IN  /\ client.botId = FromJ(GetProp(rec, "botId").value)
           /\ client.privateKey = FromJ(GetProp(rec, "privateKey").value)

\* the credentials file held a store, or did not exist, at every call of init
\* made so far
CalledOnAStore ==
    \A id \in {1, 2} :
        Invocation(id).icall # None => IsStore(Invocation(id).icall.storeAtStart)

\* C39: at most one registration per agent name: of init calls with the same
\* name that overlap at their registration request (on a credentials file that
\* holds a store) at most one request for the name is sent, and once all have
\* ended every client returned has the botId and private key of the record
\* finally stored.
C39_OneRegistrationPerName ==
    CalledOnAStore =>
        \A n \in {"a", "b"} :
            /\ Cardinality(RegistrationsFor(n)) <= 1
            /\ (Settled(1) /\ Settled(2)) =>
                   \A id \in {1, 2} :
                       (CalledWith(id, n) /\ ResolvedInit(id))
                           => ClientMatchesStored(id, n)


\* the invocation registered the name and returned a client
Registered(id) == ResolvedInit(id) /\ StepsOf(id, "saveCredentials") # {}

\* the record init is to save after the answer res to the request it sent at
\* step r of its trace
RecordToSave(v, r) ==
    LET sent == v.itrace[r].body.publicKey
        deployer == Field(v.ilocal.res.body, "deployer")
    IN  JObj(<<<<"botId", JStr(Field(v.ilocal.res.body, "botId").v)>>,
               <<"privateKey", JStr(<<"#pkcs8", sent[2]>>)>>,
               <<"name", JStr(v.icall.options.name)>>,
               <<"deployer", IF deployer = Undefined THEN Undefined ELSE JStr(deployer.v)>>,
               <<"apiUrl", JStr(StripTrailingSlashes(
                                Coalesce(v.icall.options.apiUrl, Str(DEFAULT_API_URL)).v))>>,
               <<"createdAt", JStr(ToISOString(now))>>>>)

\* one record saved, the one above, and a client with its botId and key
SavedOneRecord(id) ==
    LET v == Invocation(id)
    IN  /\ Cardinality(StepsOf(id, "saveCredentials")) = 1
        /\ Cardinality(StepsOf(id, "register")) = 1
        /\ \A r \in StepsOf(id, "register"), w \in StepsOf(id, "saveCredentials") :
              /\ r < w
              /\ v.itrace[w].creds = RecordToSave(v, r)
              /\ v.iresult.client.botId = Field(v.ilocal.res.body, "botId")
              /\ v.iresult.client.privateKey
                    = Str(<<"#pkcs8", v.itrace[r].body.publicKey[2]>>)

\* the second invocation was called with the name of the first, after the
\* first had registered it and returned
LaterInit ==
    /\ Registered(1)
    /\ other.peerAtCall = "done"
    /\ Invocation(2).icall # None
    /\ Invocation(2).icall.options.name = Invocation(1).icall.options.name

\* C31: on a successful registration init saves exactly one record {botId from
\* the registry, the private key of the key pair whose public key was sent,
\* name, deployer, normalized registry URL, createdAt} and returns a client
\* with that botId and private key; a later init with the same name returns a
\* client with the same botId and key and sends no registration request.
C31_RegisterOnceThenReuse ==
    /\ \A id \in {1, 2} : Registered(id) => SavedOneRecord(id)
    /\ LaterInit =>
          /\ StepsOf(2, "register") = {}
          /\ ResolvedInit(2)
          /\ Invocation(2).iresult.client.botId = Invocation(1).iresult.client.botId
          /\ Invocation(2).iresult.client.privateKey
                = Invocation(1).iresult.client.privateKey

====
